---- MODULE Spec2Model ----
(***************************************************************************)
(* A model of the scripted mock language server                            *)
(* (src/mock-server/src/index.ts, lines 1-304): the template engine, the   *)
(* pattern matcher, the sequence tracker, the reaction dispatcher and the  *)
(* control-channel handler.                                                *)
(*                                                                         *)
(* JSON values are tagged records; a JSON string is a sequence of          *)
(* one-character strings so that the template engine can index into it.    *)
(* A JSON object is a sequence of [k, v] entries in insertion order, the   *)
(* order in which `for (key in obj)` visits them.                          *)
(***************************************************************************)
EXTENDS Integers, Sequences, FiniteSets, TLC

\* ------------------------------------------------------------------------
\* JSON values (type JSONValue, index.ts line 9)
\* ------------------------------------------------------------------------
Undefined == [t |-> "undefined"]
JNull == [t |-> "null"]
JNum(n) == [t |-> "number", v |-> n]
JBool(b) == [t |-> "boolean", v |-> b]
JStr(s) == [t |-> "string", v |-> s]
JArr(s) == [t |-> "array", v |-> s]
JObj(s) == [t |-> "object", v |-> s]
KV(key, val) == [k |-> key, v |-> val]

\* The pseudo-value that stands for a thrown Error.
Throw == [t |-> "throw"]

\* JavaScript's typeof operator on a JSON value.
TypeOf(x) ==
    CASE x.t = "undefined" -> "undefined"
      [] x.t = "number" -> "number"
      [] x.t = "boolean" -> "boolean"
      [] x.t = "string" -> "string"
      [] OTHER -> "object"

\* `key in obj` for a plain object.
HasKey(obj, key) == \E i \in 1..Len(obj.v) : obj.v[i].k = key

\* `obj[key]` for a plain object that has the key.
GetKey(obj, key) == obj.v[CHOOSE i \in 1..Len(obj.v) : obj.v[i].k = key].v

\* `obj.name` where the property may be absent.
Prop(obj, key) == IF HasKey(obj, key) THEN GetKey(obj, key) ELSE Undefined

\* The characters \w of a regular expression.
WordChars ==
    {"a","b","c","d","e","f","g","h","i","j","k","l","m","n","o","p","q","r",
     "s","t","u","v","w","x","y","z","A","B","C","D","E","F","G","H","I","J",
     "K","L","M","N","O","P","Q","R","S","T","U","V","W","X","Y","Z","0","1",
     "2","3","4","5","6","7","8","9","_"}

\* ------------------------------------------------------------------------
\* Template engine (processTemplate, index.ts lines 117-142)
\* ------------------------------------------------------------------------

\* Mutant of ReplaceMatches: the pattern is not anchored at the end.
ReplaceMatches_Unanchored(s) ==
    /\ Len(s) >= 4
    /\ s[1] = "#"
    /\ s[2] = "{"
    /\ \E e \in 4..Len(s) :
          /\ s[e] = "}"
          /\ \A i \in 3..(e - 1) : s[i] \in WordChars

\* /^#\{(\w+)\}$/ matches the whole string.
ReplaceMatches(s) ==
    /\ Len(s) >= 4
    /\ s[1] = "#"
    /\ s[2] = "{"
    /\ s[Len(s)] = "}"
    /\ \A i \in 3..(Len(s) - 1) : s[i] \in WordChars

\* Length of the maximal run of \w characters of s that starts at p.
RECURSIVE WordRun(_, _)
WordRun(s, p) ==
    IF p <= Len(s) /\ s[p] \in WordChars THEN 1 + WordRun(s, p + 1) ELSE 0

\* /\$\{(\w+)\}/ matches at position p (1-based) of s; run is the length of
\* the run of \w characters after the "${".
ExpandMatchesRun(s, p, run) ==
    /\ run >= 1
    /\ p + 2 + run <= Len(s)
    /\ s[p + 2 + run] = "}"

ExpandMatchesAt(s, p) ==
    /\ p + 3 <= Len(s)
    /\ s[p] = "$"
    /\ s[p + 1] = "{"
    /\ ExpandMatchesRun(s, p, WordRun(s, p + 2))

\* The least element of a non-empty set of numbers.
Least(S) == CHOOSE p \in S : \A q \in S : p <= q

\* expandRegExp.exec(template) with the given lastIndex (0-based, as in
\* JavaScript): the 0-based index of the first match at or after lastIndex,
\* or -1 when there is none.
ExecHits(s, lastIndex) == {p \in (lastIndex + 1)..Len(s) : ExpandMatchesAt(s, p)}

ExecFirst(hits) == IF hits = {} THEN -1 ELSE Least(hits) - 1

ExecIndex(s, lastIndex) ==
    IF lastIndex > Len(s) THEN -1 ELSE ExecFirst(ExecHits(s, lastIndex))

\* The captured parameter name of the match at 0-based index from.
ParamAt(s, from) == SubSeq(s, from + 3, from + 2 + WordRun(s, from + 3))

\* Mutant of PlaceholderEnd: the delimiters are not counted.
PlaceholderEnd_NoDelims(from, param) == from + Len(param)

\* `to` of line 135: the end of the placeholder, delimiters included.
PlaceholderEnd(from, param) == from + Len(param) + 3

\* template.substring(0, from) + replacement + template.substring(to)
Splice(s, from, to, replacement) ==
    SubSeq(s, 1, from) \o replacement \o SubSeq(s, to + 1, Len(s))

\* lastIndex after one substitution (line 138): exec left it at the end of
\* the match, matchEnd.
NextLastIndex(matchEnd, replacement, from, to) ==
    matchEnd + (Len(replacement) - (to - from))

\* The while loop of lines 128-140.  tp is templateParams; from is the
\* result of exec, param the captured name, table is templateParams.expand.
RECURSIVE ExpandLoop(_, _, _)
ExpandBody(tp, template, from, param, table) ==
    IF ~(table.t = "object" /\ HasKey(table, param)) THEN Throw
    ELSE ExpandLoop(tp,
                    Splice(template, from, PlaceholderEnd(from, param),
                           GetKey(table, param).v),
                    NextLastIndex(from + Len(param) + 3, GetKey(table, param).v,
                                  from, PlaceholderEnd(from, param)))

ExpandFrom(tp, template, from) ==
    IF from < 0 THEN JStr(template)
    ELSE ExpandBody(tp, template, from, ParamAt(template, from),
                    Prop(tp, <<"e","x","p","a","n","d">>))

ExpandLoop(tp, template, lastIndex) ==
    ExpandFrom(tp, template, ExecIndex(template, lastIndex))

\* Lines 120-125: the lookup of name in templateParams.replace (table).
ReplaceLookup(table, name) ==
    IF table.t = "object" /\ HasKey(table, name) THEN GetKey(table, name)
    ELSE Throw

\* processTemplate(template): a JSON value, or Throw.
processTemplate(tp, template) ==
    IF ReplaceMatches(template)
    THEN ReplaceLookup(Prop(tp, <<"r","e","p","l","a","c","e">>),
                       SubSeq(template, 3, Len(template) - 1))
    ELSE ExpandLoop(tp, template, 0)

\* ------------------------------------------------------------------------
\* Pattern matcher (index.ts lines 144-210).  A result is "true", "false"
\* or "throw" (an Error propagating out of the call).
\* ------------------------------------------------------------------------
RECURSIVE matchDeepEqual(_, _, _)
RECURSIVE matchArraysFrom(_, _, _, _)
RECURSIVE matchObjectsFrom(_, _, _, _)

\* r is the result for element i: the loop goes on only when it is "true".
matchArraysNext(tp, ref, test, i, r) ==
    IF r = "true" THEN matchArraysFrom(tp, ref, test, i + 1) ELSE r

\* The for loop of matchArrays, from index i on.
matchArraysFrom(tp, ref, test, i) ==
    IF i > Len(ref.v) THEN "true"
    ELSE matchArraysNext(tp, ref, test, i,
                         matchDeepEqual(tp, ref.v[i], test.v[i]))

\* Mutant of matchArrays: a pattern array matches a longer array that starts
\* with its elements.
matchArrays_Prefix(tp, ref, test) ==
    IF Len(ref.v) > Len(test.v) THEN "false"
    ELSE matchArraysFrom(tp, ref, test, 1)

matchArrays(tp, ref, test) ==
    IF Len(ref.v) # Len(test.v) THEN "false"
    ELSE matchArraysFrom(tp, ref, test, 1)

matchObjectsNext(tp, ref, test, i, r) ==
    IF r = "true" THEN matchObjectsFrom(tp, ref, test, i + 1) ELSE r

\* Mutant of matchObjectsKey: a key that is no string is a key the value
\* does not have.
matchObjectsKey_NonStringIsMiss(tp, ref, test, i, key) ==
    IF key.t = "throw" THEN "throw"
    ELSE IF TypeOf(key) # "string" THEN "false"
    ELSE IF ~HasKey(test, key.v) THEN "false"
    ELSE matchObjectsNext(tp, ref, test, i,
                          matchDeepEqual(tp, ref.v[i].v, GetKey(test, key.v)))

\* The body of the for-in loop for the i-th key of ref, expanded to key.
matchObjectsKey(tp, ref, test, i, key) ==
    IF key.t = "throw" THEN "throw"
    ELSE IF TypeOf(key) # "string" THEN "throw"
    ELSE IF ~HasKey(test, key.v) THEN "false"
    ELSE matchObjectsNext(tp, ref, test, i,
                          matchDeepEqual(tp, ref.v[i].v, GetKey(test, key.v)))

\* The for-in loop of matchObjects, from the i-th key of ref on.
matchObjectsFrom(tp, ref, test, i) ==
    IF i > Len(ref.v) THEN "true"
    ELSE matchObjectsKey(tp, ref, test, i, processTemplate(tp, ref.v[i].k))

\* Mutant of matchObjects: the objects must have the same number of keys.
matchObjects_SameSize(tp, ref, test) ==
    IF Len(ref.v) # Len(test.v) THEN "false"
    ELSE matchObjectsFrom(tp, ref, test, 1)

matchObjects(tp, ref, test) == matchObjectsFrom(tp, ref, test, 1)

\* Mutant of matchExpanded: a template that cannot be resolved is an
\* ordinary non-match.
matchExpanded_MissIsFalse(tp, ref, test) ==
    IF ref.t = "throw" THEN "false"
    ELSE IF TypeOf(ref) # TypeOf(test) THEN "false"
    ELSE IF ref.t = "null" /\ test.t = "null" THEN "true"
    ELSE IF TypeOf(ref) \in {"string", "number", "boolean"}
         THEN (IF ref.v = test.v THEN "true" ELSE "false")
    ELSE IF ref.t = "array" /\ test.t = "array" THEN matchArrays(tp, ref, test)
    ELSE IF ref.t = "object" /\ test.t = "object" THEN matchObjects(tp, ref, test)
    ELSE "false"

\* Mutant of matchExpanded: null, arrays and objects, all of type
\* "object", match each other.
matchExpanded_ObjectsAlike(tp, ref, test) ==
    IF ref.t = "throw" THEN "throw"
    ELSE IF TypeOf(ref) # TypeOf(test) THEN "false"
    ELSE IF ref.t = "null" /\ test.t = "null" THEN "true"
    ELSE IF TypeOf(ref) \in {"string", "number", "boolean"}
         THEN (IF ref.v = test.v THEN "true" ELSE "false")
    ELSE IF ref.t = "array" /\ test.t = "array" THEN matchArrays(tp, ref, test)
    ELSE IF ref.t = "object" /\ test.t = "object" THEN matchObjects(tp, ref, test)
    ELSE "true"

\* Lines 177-195, ref being the pattern after line 174.
matchExpanded(tp, ref, test) ==
    IF ref.t = "throw" THEN "throw"
    ELSE IF TypeOf(ref) # TypeOf(test) THEN "false"
    ELSE IF ref.t = "null" /\ test.t = "null" THEN "true"
    ELSE IF TypeOf(ref) \in {"string", "number", "boolean"}
         THEN (IF ref.v = test.v THEN "true" ELSE "false")
    ELSE IF ref.t = "array" /\ test.t = "array" THEN matchArrays(tp, ref, test)
    ELSE IF ref.t = "object" /\ test.t = "object" THEN matchObjects(tp, ref, test)
    ELSE "false"

matchDeepEqual(tp, ref, test) ==
    matchExpanded(tp,
                  IF TypeOf(ref) = "string" THEN processTemplate(tp, ref.v)
                  ELSE ref,
                  test)

\* Mutant of matchMessage: a step without a pattern takes any params.
matchMessage_NoPatternTakesAny(tp, msg, method, params) ==
    IF msg.method # method THEN "false"
    ELSE IF msg.params.t # "undefined"
         THEN (IF params.t = "undefined" THEN "false"
               ELSE matchDeepEqual(tp, msg.params, params))
    ELSE "true"

\* matchMessage(msg, method, params)
matchMessage(tp, msg, method, params) ==
    IF msg.method # method THEN "false"
    ELSE IF msg.params.t # "undefined"
         THEN (IF params.t = "undefined" THEN "false"
               ELSE matchDeepEqual(tp, msg.params, params))
    ELSE (IF params.t = "undefined" THEN "true" ELSE "false")

\* Mutant of processRequestResult: the reply is used as the pattern and the
\* expected result as the live value.
processRequestResult_Swapped(tp, result, expectedResult) ==
    IF result.t = "undefined"
    THEN (IF expectedResult.t = "undefined" THEN "ok" ELSE "throw")
    ELSE IF expectedResult.t = "undefined" THEN "throw"
    ELSE IF matchDeepEqual(tp, result, expectedResult) = "true" THEN "ok"
    ELSE "throw"

\* processRequestResult(result, expectedResult): "ok", or "throw" when an
\* assertion fails or the matcher throws.
processRequestResult(tp, result, expectedResult) ==
    IF result.t = "undefined"
    THEN (IF expectedResult.t = "undefined" THEN "ok" ELSE "throw")
    ELSE IF expectedResult.t = "undefined" THEN "throw"
    ELSE IF matchDeepEqual(tp, expectedResult, result) = "true" THEN "ok"
    ELSE "throw"

\* ------------------------------------------------------------------------
\* Test scripts (interfaces TestMessage, TestMessagesUnordered, TestSetup,
\* index.ts lines 16-33).  An absent params or result is Undefined; an
\* absent intermediate list is the empty list (an empty list and an absent
\* one make processIntermediate send nothing).
\* ------------------------------------------------------------------------
Request(method, params, intermediate, result) ==
    [type |-> "request", method |-> method, params |-> params,
     intermediate |-> intermediate, result |-> result]

Notification(method, params, intermediate) ==
    [type |-> "notification", method |-> method, params |-> params,
     intermediate |-> intermediate, result |-> Undefined]

Unordered(content) == [type |-> "request-unordered", content |-> content]

TestSetup(sequence, initializeResult) ==
    [sequence |-> sequence, initializeResult |-> initializeResult]

\* Frequently used JSON values.
X1 == JObj(<<KV(<<"x">>, JNum(1))>>)
X2 == JObj(<<KV(<<"x">>, JNum(2))>>)
X1Y9 == JObj(<<KV(<<"x">>, JNum(1)), KV(<<"y">>, JNum(9))>>)
OkTrue == JObj(<<KV(<<"o","k">>, JBool(TRUE))>>)
OkTrueMore == JObj(<<KV(<<"o","k">>, JBool(TRUE)), KV(<<"n">>, JNum(1))>>)
OkFalse == JObj(<<KV(<<"o","k">>, JBool(FALSE))>>)
Id42 == JObj(<<KV(<<"i","d">>, JNum(42))>>)
Id42Str == JObj(<<KV(<<"i","d">>, JStr(<<"4","2">>))>>)

\* Reactions.
LogNote == Notification("log", Undefined, <<>>)
EvtNote == Notification("evt", X1, <<>>)
CfgAsk == Request("cfg", Undefined, <<>>, OkTrue)
AckAsk == Request("ack", X1, <<>>, Undefined)

\* Members of unordered groups.
MemberA == Request("foo", X1, <<CfgAsk>>, JNum(1))
MemberB == Request("bar", Undefined, <<LogNote>>, JNum(2))
MemberC == Request("baz", Undefined, <<>>, JNum(3))
MemberD == Request("bar", Undefined, <<>>, JNum(4))

\* Ordered steps only, with reactions of both kinds.
OrderedScript ==
    TestSetup(<<Request("foo", X1, <<CfgAsk, LogNote>>, JNum(10)),
                Notification("bar", Undefined, <<EvtNote>>),
                Request("baz", Undefined, <<>>, Undefined)>>, Undefined)

\* One unordered group followed by an ordered step.
GroupScript ==
    TestSetup(<<Unordered(<<MemberA, MemberB, MemberC>>),
                Request("foo", X2, <<>>, JNull)>>, Undefined)

\* A group followed by a larger group.
GrowingGroupsScript ==
    TestSetup(<<Unordered(<<MemberC>>), Unordered(<<MemberD, MemberC>>)>>,
              Undefined)

\* Two groups of the same size.
EqualGroupsScript ==
    TestSetup(<<Unordered(<<MemberD, MemberC>>),
                Unordered(<<MemberD, MemberC>>)>>, Undefined)

\* A notification step first.
NotificationFirstScript ==
    TestSetup(<<Notification("bar", Undefined, <<LogNote, AckAsk>>),
                Request("foo", X1, <<>>, JNum(10))>>, OkTrue)

\* A pattern with a templated key and a whole-string replacement.
TemplateScript ==
    TestSetup(<<Request("foo",
                        JObj(<<KV(<<"$","{","a","}">>, JStr(<<"#","{","k","}">>))>>),
                        <<>>, JNum(10))>>, Undefined)

\* Nothing scripted.
EmptyScript == TestSetup(<<>>, Undefined)

Tests == <<OrderedScript, GroupScript, GrowingGroupsScript, EqualGroupsScript,
           NotificationFirstScript, TemplateScript, EmptyScript>>

\* ------------------------------------------------------------------------
\* Bounds and inputs of the model
\* ------------------------------------------------------------------------
\* At most this many control requests ($/sleep, $/setTemplateParams) that
\* return normally are handled in one run.
MaxControl == 1

Msg(method, params) == [method |-> method, params |-> params]

\* The inbound requests and notifications a client may send.
Inbound ==
    <<Msg("foo", X1), Msg("foo", X1Y9), Msg("foo", X2), Msg("foo", Id42),
      Msg("bar", Undefined), Msg("baz", Undefined)>>

\* Payloads of $/setTemplateParams.
ParamsAK ==
    JObj(<<KV(<<"e","x","p","a","n","d">>, JObj(<<KV(<<"a">>, JStr(<<"i","d">>))>>)),
           KV(<<"r","e","p","l","a","c","e">>, JObj(<<KV(<<"k">>, JNum(42))>>))>>)
ParamsBad == JObj(<<KV(<<"o","t","h","e","r">>, JNum(1))>>)

\* The control requests a client may send.
Control ==
    <<Msg("$/sleep", JNum(0)), Msg("$/sleep", Undefined),
      Msg("$/terminate", JNum(3)), Msg("$/terminate", JNum(0)),
      Msg("$/terminate", JStr(<<"3">>)),
      Msg("$/setTemplateParams", ParamsAK),
      Msg("$/setTemplateParams", ParamsBad),
      Msg("$/setTemplateParams", JArr(<<>>))>>

\* The replies a client may give to a reaction request.
Replies == <<Undefined, OkTrue, OkFalse>>

\* ------------------------------------------------------------------------
\* State
\* ------------------------------------------------------------------------
VARIABLES
    test,               \* the loaded script (line 43), never changed
    sequenceIndex,      \* line 44
    unorderedReceived,  \* line 45: a JavaScript array, [length, elems]
    templateParams,     \* line 46
    running,            \* FALSE once the process has exited
    exitCode,           \* the exit status, -1 while running
    tasks,              \* the activations of processIntermediate
    log,                \* history: the messages handled and sent, in order
    nControl,           \* history: control requests that returned normally
    call,               \* the matcher call under evaluation and its arguments
    ret,                \* the value that call returned
    converter,          \* the token server's LSPToJSON stream
    serializer,         \* the token server's JSONToLSP stream
    received,           \* history: the chunks written to converter
    written             \* history: the values written to serializer

vars == <<test, sequenceIndex, unorderedReceived, templateParams, running,
          exitCode, tasks, log, nControl, call, ret, converter, serializer,
          received, written>>

\* The variables of the mock server and of the matcher calls.
mockVars == <<test, sequenceIndex, unorderedReceived, templateParams, running,
              exitCode, tasks, log, nControl, call, ret>>

\* The streams of the token server are no part of the mock server: where
\* the mock server runs, none has been constructed.
NoStreams ==
    /\ converter = Undefined
    /\ serializer = Undefined
    /\ received = <<>>
    /\ written = <<>>

\* No matcher call is evaluated on its own while the server runs a script.
NoCall == [fn |-> "none", ref |-> Undefined, test |-> Undefined]
NoResult == [t |-> "none"]

\* A JavaScript array of booleans that may have holes: elems maps the
\* indices that hold a value (0-based) to it.
EmptyArray == [length |-> 0, elems |-> <<>>]
FilledArray(n) == [length |-> n, elems |-> [i \in 0..(n - 1) |-> FALSE]]
ArrayGet(arr, i) == i \in DOMAIN arr.elems /\ arr.elems[i]
ArraySet(arr, i) ==
    [length |-> IF i + 1 > arr.length THEN i + 1 ELSE arr.length,
     elems |-> [j \in (DOMAIN arr.elems) \cup {i} |->
                   IF j = i THEN TRUE ELSE arr.elems[j]]]
\* unorderedReceived.every(e => e): holes are skipped.
ArrayEvery(arr) == \A i \in DOMAIN arr.elems : arr.elems[i]

Init ==
    /\ \E i \in 1..Len(Tests) : test = Tests[i]
    /\ sequenceIndex = 0
    /\ unorderedReceived = EmptyArray
    /\ templateParams = JObj(<<>>)
    /\ running = TRUE
    /\ exitCode = -1
    /\ tasks = <<>>
    /\ log = <<>>
    /\ nControl = 0
    /\ call = NoCall
    /\ ret = NoResult
    /\ NoStreams

\* Entries of the log.  An inbound entry records in pre the value of
\* sequenceIndex when its handler started.  id is the position in the log of
\* the inbound request a response answers; task and idx name the reaction a
\* message belongs to.
Event(dir, kind, method, value, id, task, idx, pre) ==
    [dir |-> dir, kind |-> kind, method |-> method, value |-> value,
     id |-> id, task |-> task, idx |-> idx, pre |-> pre]
InRequest(method, params) ==
    Event("in", "request", method, params, 0, 0, 0, sequenceIndex)
InNotification(method, params) ==
    Event("in", "notification", method, params, 0, 0, 0, sequenceIndex)
InReply(result, task, idx) ==
    Event("in", "reply", "", result, 0, task, idx, sequenceIndex)
InError(task, idx) ==
    Event("in", "error", "", Undefined, 0, task, idx, sequenceIndex)
OutReaction(option, task, idx) ==
    Event("out", IF option.type = "notification" THEN "notification" ELSE "request",
          option.method, option.params, 0, task, idx, 0)
OutResponse(result, id) == Event("out", "response", "", result, id, 0, 0, 0)

\* ------------------------------------------------------------------------
\* Control-channel handler (index.ts lines 63-102)
\* ------------------------------------------------------------------------
\* Mutant of assertTemplateParams: the keys of the payload are not looked at.
assertTemplateParams_AnyKey(params) ==
    /\ TypeOf(params) = "object"
    /\ params.t # "null"
    /\ params.t # "array"

\* assertTemplateParams(params): TRUE when no assertion fails.
assertTemplateParams(params) ==
    /\ TypeOf(params) = "object"
    /\ params.t # "null"
    /\ params.t # "array"
    /\ \A i \in 1..Len(params.v) :
          \/ params.v[i].k = <<"e","x","p","a","n","d">>
          \/ params.v[i].k = <<"r","e","p","l","a","c","e">>

\* Mutant of handleTerminate: the exit code is dropped.
handleTerminate_NoCode(code) == 0

\* The exit status handleTerminate(exitCode) ends the process with.
handleTerminate(code) == code

\* Mutant of handleCustomRequests: $/sleep is not recognised.
handleCustomRequests_NoSleep(tp, method, params) ==
    CASE method = "$/terminate" ->
           IF TypeOf(params) = "number"
           THEN [k |-> "exit", tp |-> tp, code |-> handleTerminate(params.v)]
           ELSE [k |-> "throw", tp |-> tp, code |-> 0]
      [] method = "$/setTemplateParams" ->
           IF assertTemplateParams(params)
           THEN [k |-> "return", tp |-> params, code |-> 0]
           ELSE [k |-> "throw", tp |-> tp, code |-> 0]
      [] OTHER -> [k |-> "NOT_HANDLED", tp |-> tp, code |-> 0]

\* Mutant of handleCustomRequests: $/setTemplateParams adds the tables of the
\* payload to the current parameters and keeps the tables it does not name.
handleCustomRequests_Merge(tp, method, params) ==
    CASE method = "$/sleep" ->
           IF TypeOf(params) = "number"
           THEN [k |-> "return", tp |-> tp, code |-> 0]
           ELSE [k |-> "throw", tp |-> tp, code |-> 0]
      [] method = "$/terminate" ->
           IF TypeOf(params) = "number"
           THEN [k |-> "exit", tp |-> tp, code |-> handleTerminate(params.v)]
           ELSE [k |-> "throw", tp |-> tp, code |-> 0]
      [] method = "$/setTemplateParams" ->
           IF assertTemplateParams(params)
           THEN [k |-> "return",
                 tp |-> JObj(params.v \o
                             SelectSeq(tp.v, LAMBDA e : ~HasKey(params, e.k))),
                 code |-> 0]
           ELSE [k |-> "throw", tp |-> tp, code |-> 0]
      [] OTHER -> [k |-> "NOT_HANDLED", tp |-> tp, code |-> 0]

\* handleCustomRequests(method, params): what the call does.
\*   "NOT_HANDLED"  the method is no control request
\*   "throw"        an assertion failed
\*   "exit"         the process exits with status code
\*   "return"       the call returned undefined; tp is templateParams after it
handleCustomRequests(tp, method, params) ==
    CASE method = "$/sleep" ->
           IF TypeOf(params) = "number"
           THEN [k |-> "return", tp |-> tp, code |-> 0]
           ELSE [k |-> "throw", tp |-> tp, code |-> 0]
      [] method = "$/terminate" ->
           IF TypeOf(params) = "number"
           THEN [k |-> "exit", tp |-> tp, code |-> handleTerminate(params.v)]
           ELSE [k |-> "throw", tp |-> tp, code |-> 0]
      [] method = "$/setTemplateParams" ->
           IF assertTemplateParams(params)
           THEN [k |-> "return", tp |-> params, code |-> 0]
           ELSE [k |-> "throw", tp |-> tp, code |-> 0]
      [] OTHER -> [k |-> "NOT_HANDLED", tp |-> tp, code |-> 0]

\* ------------------------------------------------------------------------
\* Reaction dispatcher (processIntermediate, index.ts lines 212-228)
\* ------------------------------------------------------------------------
\* A task is one activation of processIntermediate: list is its argument,
\* i the index (1-based) of the reaction whose send it awaits, phase is
\* "awaitNotification", "awaitReply" or "done".  awaited says that the
\* onRequest handler of request `owner` awaits the task and then returns
\* result.
Task(owner, list, i, phase, awaited, result) ==
    [owner |-> owner, list |-> list, i |-> i, phase |-> phase,
     awaited |-> awaited, result |-> result]

\* Mutant of PhaseOf: the reply to a reaction request is not awaited.
PhaseOf_NoAwait(option) == "awaitNotification"

PhaseOf(option) ==
    IF option.type = "notification" THEN "awaitNotification" ELSE "awaitReply"

\* The position in list of the reaction sent after reaction i.
NextReaction(i) == i + 1

\* The next state, variable by variable (test never changes).
Set(si, ur, tp, run, code, tk, lg, nc) ==
    /\ sequenceIndex' = si
    /\ unorderedReceived' = ur
    /\ templateParams' = tp
    /\ running' = run
    /\ exitCode' = code
    /\ tasks' = tk
    /\ log' = lg
    /\ nControl' = nc
    /\ UNCHANGED <<test, call, ret, converter, serializer, received, written>>

\* console.error(e); exit(1), after the handler has left unorderedReceived
\* as ur and the log as lg.
Fatal(ur, lg) ==
    Set(sequenceIndex, ur, templateParams, FALSE, 1, tasks, lg, nControl)

\* sequenceIndex++ (lines 240, 261, 294)
Advance(si) == si + 1

\* The call processIntermediate(list) up to its first await: the task it
\* leaves behind and what it has sent.  An empty list sends nothing and the
\* task is done at once.
StartTask(owner, list, awaited, result) ==
    IF Len(list) = 0 THEN Task(owner, list, 0, "done", awaited, result)
    ELSE Task(owner, list, 1, PhaseOf(list[1]), awaited, result)

StartSends(list, t) ==
    IF Len(list) = 0 THEN <<>> ELSE <<OutReaction(list[1], t, 1)>>

\* The tasks after processIntermediate(list) has been called for request or
\* notification `owner`; an empty list leaves no task behind.
Spawn(owner, list, awaited, result) ==
    IF Len(list) = 0 THEN tasks
    ELSE Append(tasks, StartTask(owner, list, awaited, result))

\* Mutant of RequestStep: the cursor is advanced before the assertion.
RequestStep_AdvanceFirst(msg, matched, id, lg) ==
    IF matched # "true"
    THEN Set(Advance(sequenceIndex), unorderedReceived, templateParams, FALSE,
             1, tasks, lg, nControl)
    ELSE Set(Advance(sequenceIndex), unorderedReceived, templateParams, TRUE,
             exitCode, Spawn(id, msg.intermediate, TRUE, msg.result),
             IF Len(msg.intermediate) = 0
             THEN Append(lg, OutResponse(msg.result, id))
             ELSE lg \o StartSends(msg.intermediate, Len(tasks) + 1),
             nControl)

\* The request branch of connection.onRequest (lines 238-244); matched is
\* the result of matchMessage.  The handler awaits processIntermediate: the
\* result is returned when the task is done.
RequestStep(msg, matched, id, lg) ==
    IF matched # "true" THEN Fatal(unorderedReceived, lg)
    ELSE Set(Advance(sequenceIndex), unorderedReceived, templateParams, TRUE,
             exitCode, Spawn(id, msg.intermediate, TRUE, msg.result),
             IF Len(msg.intermediate) = 0
             THEN Append(lg, OutResponse(msg.result, id))
             ELSE lg \o StartSends(msg.intermediate, Len(tasks) + 1),
             nControl)

\* Mutant of StopsScan: a member already received is not skipped.
StopsScan_IgnoreBits(bits, content, m, i) ==
    matchMessage(templateParams, content[i + 1], m.method, m.params) # "false"

\* Whether member i (0-based) stops the scan of lines 251-268: it is not yet
\* received and matchMessage is not false for it.
StopsScan(bits, content, m, i) ==
    /\ ~ArrayGet(bits, i)
    /\ matchMessage(templateParams, content[i + 1], m.method, m.params) # "false"

\* The member scan of lines 251-268: the index (0-based) of the member the
\* loop stops at, or -1 when it runs to the end.
ScanHits(bits, content, m) ==
    {i \in 0..(Len(content) - 1) : StopsScan(bits, content, m, i)}

ScanFirst(hits) == IF hits = {} THEN -1 ELSE Least(hits)

ScanMembers(bits, content, m) == ScanFirst(ScanHits(bits, content, m))

\* Lines 246-249.
InitReceived(bits, n) == IF bits.length = 0 THEN FilledArray(n) ELSE bits

\* Line 259.
AllReceived(bits) == ArrayEvery(bits)

\* Mutant of AdvanceIfComplete: the check and the advance are left to a
\* later step.
AdvanceIfComplete_Later(bits1, si) == si

\* Lines 258-262: sequenceIndex after the bits have become bits1.
AdvanceIfComplete(bits1, si) == IF AllReceived(bits1) THEN Advance(si) ELSE si

\* Lines 257-267 for the member option the scan stopped at (index i);
\* matched is matchMessage for it.  processIntermediate is called and not
\* awaited: the result is returned as soon as the call reaches its first
\* await.
MemberStep(option, matched, i, bits0, id, lg) ==
    IF matched = "throw" THEN Fatal(bits0, lg)
    ELSE Set(AdvanceIfComplete(ArraySet(bits0, i), sequenceIndex),
             ArraySet(bits0, i), templateParams, TRUE, exitCode,
             Spawn(id, option.intermediate, FALSE, option.result),
             lg \o StartSends(option.intermediate, Len(tasks) + 1)
                \o <<OutResponse(option.result, id)>>,
             nControl)

\* The request-unordered branch of connection.onRequest (lines 245-269);
\* bits0 is unorderedReceived after lines 246-249 and i the result of the scan.
UnorderedScanned(msg, m, id, lg, bits0, i) ==
    IF i < 0 THEN Fatal(bits0, lg)
    ELSE MemberStep(msg.content[i + 1],
                    matchMessage(templateParams, msg.content[i + 1],
                                 m.method, m.params),
                    i, bits0, id, lg)

UnorderedInit(msg, m, id, lg, bits0) ==
    UnorderedScanned(msg, m, id, lg, bits0, ScanMembers(bits0, msg.content, m))

UnorderedStep(msg, m, id, lg) ==
    UnorderedInit(msg, m, id, lg,
                  InitReceived(unorderedReceived, Len(msg.content)))

\* Mutant of TrackRequest: a request on a notification step is matched like
\* a request step.
TrackRequest_AnyKind(msg, m, id, lg) ==
    IF msg.type = "request-unordered" THEN UnorderedStep(msg, m, id, lg)
    ELSE RequestStep(msg, matchMessage(templateParams, msg, m.method, m.params),
                     id, lg)

\* Lines 237-273: the request m against the slot msg.
TrackRequest(msg, m, id, lg) ==
    IF msg.type = "request"
    THEN RequestStep(msg, matchMessage(templateParams, msg, m.method, m.params),
                     id, lg)
    ELSE IF msg.type = "request-unordered" THEN UnorderedStep(msg, m, id, lg)
    ELSE Fatal(unorderedReceived, lg)

\* Lines 231-277, c being the result of handleCustomRequests.
\* test.sequence[sequenceIndex] is undefined past the end of the sequence and
\* msg.type then throws a TypeError.
HandleRequest(m, c, id, lg) ==
    CASE c.k = "throw" -> Fatal(unorderedReceived, lg)
      [] c.k = "exit" ->
           Set(sequenceIndex, unorderedReceived, templateParams, FALSE,
               c.code, tasks, lg, nControl)
      [] c.k = "return" ->
           Set(sequenceIndex, unorderedReceived, c.tp, TRUE, exitCode,
               tasks, Append(lg, OutResponse(Undefined, id)), nControl + 1)
      [] OTHER ->
           IF sequenceIndex >= Len(test.sequence)
           THEN Fatal(unorderedReceived, lg)
           ELSE TrackRequest(test.sequence[sequenceIndex + 1], m, id, lg)

\* connection.onRequest (lines 230-278) for the inbound request m.
OnRequest(m) ==
    /\ running
    /\ HandleRequest(m, handleCustomRequests(templateParams, m.method, m.params),
                     Len(log) + 1, Append(log, InRequest(m.method, m.params)))

\* Mutant of TrackNotification: the cursor is not advanced on a match.
TrackNotification_NoAdvance(msg, m, id, lg) ==
    IF msg.type # "notification" THEN Fatal(unorderedReceived, lg)
    ELSE IF matchMessage(templateParams, msg, m.method, m.params) # "true"
    THEN Fatal(unorderedReceived, lg)
    ELSE Set(sequenceIndex, unorderedReceived, templateParams, TRUE,
             exitCode, Spawn(id, msg.intermediate, FALSE, Undefined),
             lg \o StartSends(msg.intermediate, Len(tasks) + 1), nControl)

\* Lines 292-297: the notification m against the slot msg.
TrackNotification(msg, m, id, lg) ==
    IF msg.type # "notification" THEN Fatal(unorderedReceived, lg)
    ELSE IF matchMessage(templateParams, msg, m.method, m.params) # "true"
    THEN Fatal(unorderedReceived, lg)
    ELSE Set(Advance(sequenceIndex), unorderedReceived, templateParams, TRUE,
             exitCode, Spawn(id, msg.intermediate, FALSE, Undefined),
             lg \o StartSends(msg.intermediate, Len(tasks) + 1), nControl)

\* Mutant of HandleNotification: a notification after the end of the script
\* is ignored.
HandleNotification_IgnoreLate(m, id, lg) ==
    IF sequenceIndex >= Len(test.sequence)
    THEN Set(sequenceIndex, unorderedReceived, templateParams, TRUE, exitCode,
             tasks, lg, nControl)
    ELSE TrackNotification(test.sequence[sequenceIndex + 1], m, id, lg)

HandleNotification(m, id, lg) ==
    IF sequenceIndex >= Len(test.sequence) THEN Fatal(unorderedReceived, lg)
    ELSE TrackNotification(test.sequence[sequenceIndex + 1], m, id, lg)

\* connection.onNotification (lines 289-302) for the inbound notification m.
OnNotification(m) ==
    /\ running
    /\ HandleNotification(m, Len(log) + 1,
                          Append(log, InNotification(m.method, m.params)))

\* Mutant of ResumeAt: the handler that awaits the task never returns.
ResumeAt_NoResponse(t, task, j, lg) ==
    IF j <= Len(task.list)
    THEN Set(sequenceIndex, unorderedReceived, templateParams, TRUE, exitCode,
             [tasks EXCEPT ![t].i = j, ![t].phase = PhaseOf(task.list[j])],
             Append(lg, OutReaction(task.list[j], t, j)), nControl)
    ELSE Set(sequenceIndex, unorderedReceived, templateParams, TRUE, exitCode,
             [tasks EXCEPT ![t].phase = "done"], lg, nControl)

\* processIntermediate resumes after the await of a reaction of task t has
\* completed: it sends reaction j of the list or, after the last one,
\* returns; the onRequest handler that awaits it then returns its result.
ResumeAt(t, task, j, lg) ==
    IF j <= Len(task.list)
    THEN Set(sequenceIndex, unorderedReceived, templateParams, TRUE, exitCode,
             [tasks EXCEPT ![t].i = j, ![t].phase = PhaseOf(task.list[j])],
             Append(lg, OutReaction(task.list[j], t, j)), nControl)
    ELSE Set(sequenceIndex, unorderedReceived, templateParams, TRUE, exitCode,
             [tasks EXCEPT ![t].phase = "done"],
             IF task.awaited
             THEN Append(lg, OutResponse(task.result, task.owner))
             ELSE lg,
             nControl)

Resume(t, lg) == ResumeAt(t, tasks[t], NextReaction(tasks[t].i), lg)

\* The promise of connection.sendNotification (line 216) resolves.
NotificationSent(t) ==
    /\ running
    /\ tasks[t].phase = "awaitNotification"
    /\ Resume(t, log)

\* Mutant of Verified: a failed verification in a continuation that no
\* handler awaits is dropped, and the continuation ends there.
Verified_Swallow(t, verdict, lg) ==
    IF verdict = "ok" THEN Resume(t, lg)
    ELSE IF tasks[t].awaited THEN Fatal(unorderedReceived, lg)
    ELSE Set(sequenceIndex, unorderedReceived, templateParams, TRUE, exitCode,
             [tasks EXCEPT ![t].phase = "done"], lg, nControl)

\* Lines 218-219 once the reply has arrived; verdict is the result of
\* processRequestResult.
Verified(t, verdict, lg) ==
    IF verdict = "ok" THEN Resume(t, lg) ELSE Fatal(unorderedReceived, lg)

\* The template parameters after the first n messages of lg were handled:
\* the payload of the last $/setTemplateParams request among them that
\* passed the assertions of lines 97-98.
RECURSIVE ParamsAfter(_, _)
ParamsAfter(lg, n) ==
    IF n = 0 THEN JObj(<<>>)
    ELSE IF /\ lg[n].dir = "in"
            /\ lg[n].kind = "request"
            /\ lg[n].method = "$/setTemplateParams"
            /\ assertTemplateParams(lg[n].value)
         THEN lg[n].value
         ELSE ParamsAfter(lg, n - 1)

\* Mutant of ReplyReceived: the reply is verified with the template
\* parameters of the moment the step of the task was matched.
ReplyReceived_ParamsAtMatch(t, result) ==
    /\ running
    /\ tasks[t].phase = "awaitReply"
    /\ Verified(t,
                processRequestResult(ParamsAfter(log, tasks[t].owner), result,
                                     tasks[t].list[tasks[t].i].result),
                Append(log, InReply(result, t, tasks[t].i)))

\* The client answers the reaction request of task t with result.
ReplyReceived(t, result) ==
    /\ running
    /\ tasks[t].phase = "awaitReply"
    /\ Verified(t,
                processRequestResult(templateParams, result,
                                     tasks[t].list[tasks[t].i].result),
                Append(log, InReply(result, t, tasks[t].i)))

\* The awaited promise of a reaction rejects (the send fails, or the client
\* answers with an error): the catch of lines 222-227.
ReactionFailed(t) ==
    /\ running
    /\ tasks[t].phase \in {"awaitNotification", "awaitReply"}
    /\ Fatal(unorderedReceived, Append(log, InError(t, tasks[t].i)))

\* The model handles at most max control requests that return normally: the
\* control request m is sent only while fewer have been handled, or when it
\* ends the run.
WithinBudget(m, max) ==
    handleCustomRequests(templateParams, m.method, m.params).k = "return"
        => nControl < max

Next ==
    \/ \E i \in 1..Len(Inbound) : OnRequest(Inbound[i])
    \/ \E i \in 1..Len(Control) :
          WithinBudget(Control[i], MaxControl) /\ OnRequest(Control[i])
    \/ \E i \in 1..Len(Inbound) : OnNotification(Inbound[i])
    \/ \E t \in 1..Len(tasks) : NotificationSent(t)
    \/ \E t \in 1..Len(tasks) : \E i \in 1..Len(Replies) :
          ReplyReceived(t, Replies[i])
    \/ \E t \in 1..Len(tasks) : ReactionFailed(t)

Spec == Init /\ [][Next]_vars

\* The awaits of lines 216 and 218 complete: the promise of a sent
\* notification resolves, and the client answers a reaction request with a
\* result or with an error.
ReactionSettles ==
    \E t \in 1..Len(tasks) :
        \/ NotificationSent(t)
        \/ \E i \in 1..Len(Replies) : ReplyReceived(t, Replies[i])
        \/ ReactionFailed(t)

\* The runs in which no reaction stays pending forever.
LiveSpec == Init /\ [][Next]_vars /\ WF_vars(ReactionSettles)

\* ------------------------------------------------------------------------
\* Scripts with templates and with members that overlap, played by a client
\* that changes the template parameters (lines 96-99) between messages.
\* ------------------------------------------------------------------------
X42 == JObj(<<KV(<<"x">>, JNum(42))>>)
EmptyObj == JObj(<<>>)

\* The patterns {"x": "#{k}"} and {"${a}": "#{k}"}.
TplX == JObj(<<KV(<<"x">>, JStr(<<"#","{","k","}">>))>>)
TplIdK == JObj(<<KV(<<"$","{","a","}">>, JStr(<<"#","{","k","}">>))>>)

\* A reaction request whose expected result is a template.
TplAsk == Request("cfg", Undefined, <<>>, TplIdK)

\* Members whose patterns both match foo {x:1}.
TieFirst == Request("foo", X1, <<LogNote>>, JNum(1))
TieSecond == Request("foo", EmptyObj, <<EvtNote>>, JNum(5))

\* A group whose first member needs a parameter, then a templated
\* notification step.
TemplateGroupScript ==
    TestSetup(<<Unordered(<<Request("foo", TplX, <<TplAsk>>, JNum(1)),
                            Request("foo", X1, <<LogNote>>, JNum(2))>>),
                Notification("bar", TplIdK, <<CfgAsk, AckAsk>>)>>, Undefined)

\* Overlapping members, in a first group and in a group after it.
TieScript ==
    TestSetup(<<Unordered(<<TieFirst, TieSecond>>),
                Unordered(<<MemberC, TieFirst, TieSecond>>)>>, Undefined)

\* A group whose first member has a pattern with the key "#{k}" and whose
\* second member matches foo {x:1}.
KeyedK == JObj(<<KV(<<"#","{","k","}">>, JNum(1))>>)
KeyScript ==
    TestSetup(<<Unordered(<<Request("foo", KeyedK, <<>>, JNum(1)),
                            Request("foo", X1, <<>>, JNum(2))>>)>>, Undefined)

\* One step with two reaction requests whose expected result is a template.
AskScript ==
    TestSetup(<<Request("foo", X1, <<TplAsk, TplAsk>>, JNum(1))>>, Undefined)

TemplateTests ==
    <<TemplateGroupScript, TieScript, TemplateScript, KeyScript, AskScript>>

\* At most this many $/setTemplateParams requests with a valid payload are
\* handled in one run of these scripts.
MaxSets == 2

\* The requests and the notifications a client may send.
TemplateInbound ==
    <<Msg("foo", X1), Msg("foo", X42), Msg("foo", Id42), Msg("baz", Undefined)>>
TemplateNotes == <<Msg("bar", Id42), Msg("foo", X1)>>

\* Payloads of $/setTemplateParams: one with both tables, one with an
\* expand table only, and malformed ones.
ParamsB ==
    JObj(<<KV(<<"e","x","p","a","n","d">>, JObj(<<KV(<<"b">>, JStr(<<"x">>))>>))>>)
ParamsMixed ==
    JObj(<<KV(<<"e","x","p","a","n","d">>, JObj(<<KV(<<"a">>, JStr(<<"i","d">>))>>)),
           KV(<<"o","t","h","e","r">>, JNum(1))>>)

TemplateControl ==
    <<Msg("$/setTemplateParams", ParamsAK),
      Msg("$/setTemplateParams", ParamsB),
      Msg("$/setTemplateParams", ParamsBad),
      Msg("$/setTemplateParams", ParamsMixed),
      Msg("$/setTemplateParams", JArr(<<>>)),
      Msg("$/setTemplateParams", JNull),
      Msg("$/setTemplateParams", JNum(1))>>

TemplateReplies == <<Undefined, OkTrue, OkTrueMore, OkFalse, EmptyObj, Id42>>

TemplateInit ==
    /\ \E i \in 1..Len(TemplateTests) : test = TemplateTests[i]
    /\ sequenceIndex = 0
    /\ unorderedReceived = EmptyArray
    /\ templateParams = JObj(<<>>)
    /\ running = TRUE
    /\ exitCode = -1
    /\ tasks = <<>>
    /\ log = <<>>
    /\ nControl = 0
    /\ call = NoCall
    /\ ret = NoResult
    /\ NoStreams

TemplateNext ==
    \/ \E i \in 1..Len(TemplateInbound) : OnRequest(TemplateInbound[i])
    \/ \E i \in 1..Len(TemplateControl) :
          WithinBudget(TemplateControl[i], MaxSets) /\ OnRequest(TemplateControl[i])
    \/ \E i \in 1..Len(TemplateNotes) : OnNotification(TemplateNotes[i])
    \/ \E t \in 1..Len(tasks) : NotificationSent(t)
    \/ \E t \in 1..Len(tasks) : \E i \in 1..Len(TemplateReplies) :
          ReplyReceived(t, TemplateReplies[i])
    \/ \E t \in 1..Len(tasks) : ReactionFailed(t)

TemplateSpec == TemplateInit /\ [][TemplateNext]_vars

\* ------------------------------------------------------------------------
\* The template engine and the pattern matcher on their own: one call of
\* processTemplate (lines 117-142) or matchDeepEqual (lines 172-196) under
\* given template parameters.
\* ------------------------------------------------------------------------
\* A template is made of at most this many pieces.
MaxPieces == 3

\* The pieces templates are made of: placeholders of set and unset names,
\* a replacement marker and plain text.
Pieces ==
    << <<"$","{","a","}">>, <<"$","{","b","}">>, <<"$","{","z","}">>,
       <<"#","{","k","}">>, <<"-">>, <<"$">>, <<"x">> >>

\* The template made of the pieces f[1], ..., f[n].
RECURSIVE TemplateOf(_, _)
TemplateOf(f, n) == IF n = 0 THEN <<>> ELSE TemplateOf(f, n - 1) \o Pieces[f[n]]

\* A $/setTemplateParams payload with the expand entries a, b and the
\* replace entry k.
ParamsOf(a, b, k) ==
    JObj(<<KV(<<"e","x","p","a","n","d">>,
              JObj(<<KV(<<"a">>, JStr(a)), KV(<<"b">>, JStr(b))>>)),
           KV(<<"r","e","p","l","a","c","e">>, JObj(<<KV(<<"k">>, k)>>))>>)

\* Values that hold placeholder text: "${z}", ["${z}"] and {"${a}": 1}.
DollarZ == JStr(<<"$","{","z","}">>)
ListDollarZ == JArr(<<DollarZ>>)
KeyedA == JObj(<<KV(<<"$","{","a","}">>, JNum(1))>>)

\* Template parameters: none; replacements shorter than, as long as and
\* longer than the placeholder, empty, and made of placeholder text; replace
\* values that hold placeholder text themselves.
EvalParams ==
    <<JObj(<<>>),
      ParamsOf(<<"x">>, <<"y","y">>, JNum(42)),
      ParamsOf(<<"1","2","3">>, <<"4">>, JStr(<<"4","2">>)),
      ParamsOf(<<>>, <<"$","{","a","}">>, X1),
      ParamsOf(<<"1","2","3","4","5">>, <<"w","x","y","z">>, JNull),
      ParamsOf(<<"$">>, <<"{","a","}">>, JBool(TRUE)),
      ParamsOf(<<"i","d">>, <<"#","{","k","}">>, JArr(<<JNum(1), JNum(2)>>)),
      ParamsB,
      ParamsOf(<<"i","d">>, <<"x">>, DollarZ),
      ParamsOf(<<"i","d">>, <<"x">>, ListDollarZ),
      ParamsOf(<<"i","d">>, <<"x">>, KeyedA)>>

\* Patterns and live values for matchDeepEqual.
A1 == JObj(<<KV(<<"a">>, JNum(1))>>)
A1B2 == JObj(<<KV(<<"a">>, JNum(1)), KV(<<"b">>, JNum(2))>>)
B2A1 == JObj(<<KV(<<"b">>, JNum(2)), KV(<<"a">>, JNum(1))>>)
A2 == JObj(<<KV(<<"a">>, JNum(2))>>)
L12 == JArr(<<JNum(1), JNum(2)>>)
L123 == JArr(<<JNum(1), JNum(2), JNum(3)>>)
L21 == JArr(<<JNum(2), JNum(1)>>)
Nested == JObj(<<KV(<<"a">>, JArr(<<A1, EmptyObj>>))>>)
NestedMore == JObj(<<KV(<<"a">>, JArr(<<A1B2, L12>>)), KV(<<"b">>, JNull)>>)
Id1 == JObj(<<KV(<<"i","d">>, JNum(1))>>)
EvalPatterns ==
    <<A1, A1B2, EmptyObj, L12, L123, JArr(<<>>), Nested, JNull, JNum(42),
      JStr(<<"4","2">>), JBool(TRUE), JStr(<<"#","{","k","}">>),
      JStr(<<"x","#","{","k","}">>), KeyedA, TplIdK, TplX>>

EvalActuals ==
    <<A1, A1B2, B2A1, A2, EmptyObj, L12, L123, L21, JArr(<<>>), Nested,
      NestedMore, JNull, JNum(42), JStr(<<"4","2">>), JBool(TRUE), Id1, Id42,
      X1, JStr(<<"x","#","{","k","}">>), DollarZ, ListDollarZ, KeyedA,
      JNum(7), JBool(FALSE)>>

Call(fn, ref, live) == [fn |-> fn, ref |-> ref, test |-> live]

\* Scripted messages and the messages a client may send, for matchMessage:
\* with and without a pattern, with and without params.
MessageSteps ==
    <<Request("foo", Undefined, <<>>, Undefined),
      Request("foo", EmptyObj, <<>>, Undefined),
      Request("foo", X1, <<>>, Undefined),
      Request("foo", JNull, <<>>, Undefined),
      Notification("bar", Undefined, <<>>),
      Notification("bar", EmptyObj, <<>>)>>
MessageInputs ==
    <<Msg("foo", Undefined), Msg("foo", EmptyObj), Msg("foo", X1),
      Msg("foo", JNull), Msg("foo", JArr(<<>>)), Msg("bar", Undefined),
      Msg("bar", X1)>>

\* The result of a matchDeepEqual call: "true", "false" or "throw".
MatchResult(r) == [t |-> "match", v |-> r]

EvalInit ==
    /\ test = EmptyScript
    /\ sequenceIndex = 0
    /\ unorderedReceived = EmptyArray
    /\ \E i \in 1..Len(EvalParams) : templateParams = EvalParams[i]
    /\ running = TRUE
    /\ exitCode = -1
    /\ tasks = <<>>
    /\ log = <<>>
    /\ nControl = 0
    /\ \/ \E n \in 0..MaxPieces : \E f \in [1..n -> 1..Len(Pieces)] :
             call = Call("processTemplate", JStr(TemplateOf(f, n)), Undefined)
       \/ \E i \in 1..Len(EvalPatterns) : \E j \in 1..Len(EvalActuals) :
             call = Call("matchDeepEqual", EvalPatterns[i], EvalActuals[j])
       \/ \E i \in 1..Len(MessageSteps) : \E j \in 1..Len(MessageInputs) :
             call = Call("matchMessage", MessageSteps[i], MessageInputs[j])
    /\ ret = NoResult
    /\ NoStreams

\* One call of processTemplate(template).
EvalTemplate ==
    /\ call.fn = "processTemplate"
    /\ ret.t = "none"
    /\ ret' = processTemplate(templateParams, call.ref.v)
    /\ UNCHANGED <<test, sequenceIndex, unorderedReceived, templateParams,
                   running, exitCode, tasks, log, nControl, call,
                   converter, serializer, received, written>>

\* One call of matchDeepEqual(ref, test).
EvalMatch ==
    /\ call.fn = "matchDeepEqual"
    /\ ret.t = "none"
    /\ ret' = MatchResult(matchDeepEqual(templateParams, call.ref, call.test))
    /\ UNCHANGED <<test, sequenceIndex, unorderedReceived, templateParams,
                   running, exitCode, tasks, log, nControl, call,
                   converter, serializer, received, written>>

\* One call of matchMessage(msg, method, params).
EvalMessage ==
    /\ call.fn = "matchMessage"
    /\ ret.t = "none"
    /\ ret' = MatchResult(matchMessage(templateParams, call.ref,
                                       call.test.method, call.test.params))
    /\ UNCHANGED <<test, sequenceIndex, unorderedReceived, templateParams,
                   running, exitCode, tasks, log, nControl, call,
                   converter, serializer, received, written>>

EvalNext == EvalTemplate \/ EvalMatch \/ EvalMessage

EvalSpec == EvalInit /\ [][EvalNext]_vars

\* ------------------------------------------------------------------------
\* The initialization handshake (connection.onInitialize and
\* connection.onInitialized, lines 49-61) during the run of a script.  The
\* handlers are registered for the methods initialize and initialized; the
\* connection hands these two messages to them and every other message to
\* the handlers of lines 230 and 289.
\* ------------------------------------------------------------------------

\* The truthiness of a JSON value in a condition.
Truthy(x) ==
    CASE x.t \in {"undefined", "null"} -> FALSE
      [] x.t = "number" -> x.v # 0
      [] x.t = "boolean" -> x.v
      [] x.t = "string" -> Len(x.v) > 0
      [] OTHER -> TRUE

\* The object literal of lines 53-57.
DefaultInitializeResult ==
    JObj(<<KV(<<"c","a","p","a","b","i","l","i","t","i","e","s">>, JObj(<<>>))>>)

\* Mutant of InitializeResult: the script's result is never used.
InitializeResult_AlwaysDefault(t) == DefaultInitializeResult

\* The value the handler of connection.onInitialize returns (lines 50-58).
InitializeResult(t) ==
    IF Truthy(t.initializeResult) THEN t.initializeResult
    ELSE DefaultInitializeResult

InInitialize(params) ==
    Event("in", "initialize", "initialize", params, 0, 0, 0, sequenceIndex)
InInitialized(params) ==
    Event("in", "initialized", "initialized", params, 0, 0, 0, sequenceIndex)

\* connection.onInitialize (lines 49-59) for an initialize request.
OnInitialize(params) ==
    /\ running
    /\ Set(sequenceIndex, unorderedReceived, templateParams, TRUE, exitCode,
           tasks,
           log \o <<InInitialize(params),
                    OutResponse(InitializeResult(test), Len(log) + 1)>>,
           nControl)

\* connection.onInitialized (line 61) for an initialized notification.
OnInitialized(params) ==
    /\ running
    /\ Set(sequenceIndex, unorderedReceived, templateParams, TRUE, exitCode,
           tasks, Append(log, InInitialized(params)), nControl)

\* A script whose initializeResult is an empty object.
EmptyResultScript ==
    TestSetup(<<Unordered(<<MemberD, MemberC>>),
                Notification("bar", Undefined, <<>>)>>, EmptyObj)

HandshakeTests == <<GroupScript, NotificationFirstScript, EmptyResultScript>>

\* At most this many initialize requests and initialized notifications are
\* handled in one run.
MaxHandshake == 2

HandshakeInbound == <<Msg("foo", X1), Msg("bar", Undefined), Msg("baz", Undefined)>>
HandshakeControl == <<Msg("$/setTemplateParams", ParamsAK)>>
HandshakeParams == <<EmptyObj>>
HandshakeReplies == <<OkTrue, OkFalse>>

IsHandshake(e) == e.kind \in {"initialize", "initialized"}
HandshakeBudget == Len(SelectSeq(log, IsHandshake)) < MaxHandshake

HandshakeInit ==
    /\ \E i \in 1..Len(HandshakeTests) : test = HandshakeTests[i]
    /\ sequenceIndex = 0
    /\ unorderedReceived = EmptyArray
    /\ templateParams = JObj(<<>>)
    /\ running = TRUE
    /\ exitCode = -1
    /\ tasks = <<>>
    /\ log = <<>>
    /\ nControl = 0
    /\ call = NoCall
    /\ ret = NoResult
    /\ NoStreams

HandshakeNext ==
    \/ \E i \in 1..Len(HandshakeParams) :
          HandshakeBudget /\ OnInitialize(HandshakeParams[i])
    \/ \E i \in 1..Len(HandshakeParams) :
          HandshakeBudget /\ OnInitialized(HandshakeParams[i])
    \/ \E i \in 1..Len(HandshakeInbound) : OnRequest(HandshakeInbound[i])
    \/ \E i \in 1..Len(HandshakeControl) :
          WithinBudget(HandshakeControl[i], MaxControl) /\ OnRequest(HandshakeControl[i])
    \/ \E i \in 1..Len(HandshakeInbound) : OnNotification(HandshakeInbound[i])
    \/ \E t \in 1..Len(tasks) : NotificationSent(t)
    \/ \E t \in 1..Len(tasks) : \E i \in 1..Len(HandshakeReplies) :
          ReplyReceived(t, HandshakeReplies[i])
    \/ \E t \in 1..Len(tasks) : ReactionFailed(t)

HandshakeSpec == HandshakeInit /\ [][HandshakeNext]_vars

\* ========================================================================
\* The framing of messages on a byte stream
\* (src/token-server/src/protocol.ts): LSPToJSON turns a stream of chunks of
\* bytes into a stream of JSON values, JSONToLSP does the reverse.
\*
\* A character is a one-character string, except that the characters beyond
\* ASCII are named by their code point.  A Buffer is a sequence of bytes; a
\* byte below 128 is written as the ASCII character it encodes and a byte
\* from 128 on by its value in hexadecimal.
\* ========================================================================
Quote == "\""
Backslash == "\\"
EAcute == "U+00E9"
ACircumflexTilde == "U+00C3"
Copyright == "U+00A9"
ReplacementChar == "U+FFFD"

\* The bytes from 128 on that occur, and the zero byte.
ByteC3 == "0xC3"
ByteA9 == "0xA9"
ByteE9 == "0xE9"
Byte00 == "0x00"
HighBytes == {ByteC3, ByteA9, ByteE9}

\* Buffer.from(str, "utf-8"): the characters beyond ASCII take two bytes.
Utf8Of(c) ==
    CASE c = EAcute -> <<ByteC3, ByteA9>>
      [] c = ACircumflexTilde -> <<ByteC3, "0x83">>
      [] c = Copyright -> <<"0xC2", ByteA9>>
      [] c = ReplacementChar -> <<"0xEF", "0xBF", "0xBD">>
      [] OTHER -> <<c>>

RECURSIVE Utf8Encode(_)
Utf8Encode(str) ==
    IF Len(str) = 0 THEN <<>> ELSE Utf8Of(Head(str)) \o Utf8Encode(Tail(str))

\* buf.toString("utf-8"): a two-byte sequence is one character, a byte
\* from 128 on that starts no sequence is replaced by U+FFFD.
RECURSIVE Utf8Decode(_)
Utf8Decode(bytes) ==
    IF Len(bytes) = 0 THEN <<>>
    ELSE IF Len(bytes) >= 2 /\ bytes[1] = ByteC3 /\ bytes[2] = ByteA9
    THEN <<EAcute>> \o Utf8Decode(SubSeq(bytes, 3, Len(bytes)))
    ELSE IF bytes[1] \in HighBytes
    THEN <<ReplacementChar>> \o Utf8Decode(Tail(bytes))
    ELSE <<bytes[1]>> \o Utf8Decode(Tail(bytes))

\* Buffer.from(str, "latin1") and buf.toString("latin1"): one byte for each
\* character, the byte being the code point.
Latin1Byte(c) ==
    CASE c = EAcute -> ByteE9
      [] c = ACircumflexTilde -> ByteC3
      [] c = Copyright -> ByteA9
      [] OTHER -> c
Latin1Char(b) ==
    CASE b = ByteE9 -> EAcute
      [] b = ByteC3 -> ACircumflexTilde
      [] b = ByteA9 -> Copyright
      [] OTHER -> b
Latin1Encode(str) == [i \in 1..Len(str) |-> Latin1Byte(str[i])]
Latin1Decode(bytes) == [i \in 1..Len(bytes) |-> Latin1Char(bytes[i])]

\* The errors thrown: LSPError (lines 4-15) and the SyntaxError of
\* JSON.parse.
LSPError == [t |-> "throw", name |-> "LSPError"]
SyntaxError == [t |-> "throw", name |-> "SyntaxError"]

\* A JavaScript number that is an integer, or NaN.
Number(n) == [t |-> "number", nan |-> FALSE, n |-> n]
NaN == [t |-> "number", nan |-> TRUE, n |-> 0]

\* str.indexOf(pat): the 0-based index of the first occurrence, or -1.
OccursAt(s, pat, p) ==
    /\ p + Len(pat) - 1 <= Len(s)
    /\ SubSeq(s, p, p + Len(pat) - 1) = pat
IndexHits(s, pat) == {p \in 1..Len(s) : OccursAt(s, pat, p)}
IndexFirst(hits) == IF hits = {} THEN -1 ELSE Least(hits) - 1
IndexOf(s, pat) == IndexFirst(IndexHits(s, pat))

\* str.substring(from, to) and str.substring(from), 0-based.
Substring(s, from, to) == SubSeq(s, from + 1, to)
SubstringFrom(s, from) == SubSeq(s, from + 1, Len(s))

\* str.split(sep) for a separator that is not empty.
RECURSIVE Split(_, _)
SplitAt(s, sep, idx) ==
    IF idx < 0 THEN <<s>>
    ELSE <<Substring(s, 0, idx)>> \o Split(SubstringFrom(s, idx + Len(sep)),
        sep)
Split(s, sep) == SplitAt(s, sep, IndexOf(s, sep))

\* str.trim()
WhiteSpace == {" ", "\t", "\r", "\n"}
RECURSIVE TrimStart(_)
TrimStart(s) ==
    IF Len(s) > 0 /\ Head(s) \in WhiteSpace THEN TrimStart(Tail(s)) ELSE s
RECURSIVE TrimEnd(_)
TrimEnd(s) ==
    IF Len(s) > 0 /\ s[Len(s)] \in WhiteSpace
    THEN TrimEnd(SubSeq(s, 1, Len(s) - 1)) ELSE s
Trim(s) == TrimEnd(TrimStart(s))

\* Number.parseInt(str): white space, a sign, then the digits up to the
\* first character that is none; base 16 after "0x".  NaN without a digit.
Digits == <<"0","1","2","3","4","5","6","7","8","9">>
HexLower == Digits \o <<"a","b","c","d","e","f">>
HexUpper == Digits \o <<"A","B","C","D","E","F">>
IsDigit(c, radix) ==
    \E i \in 1..radix : i <= Len(HexLower) /\ (HexLower[i] = c \/ HexUpper[i] = c)
DigitValue(c) ==
    (CHOOSE i \in 1..Len(HexLower) : HexLower[i] = c \/ HexUpper[i] = c) - 1
RECURSIVE ParseDigits(_, _, _, _)
ParseDigits(s, p, radix, acc) ==
    IF p <= Len(s) /\ IsDigit(s[p], radix)
    THEN ParseDigits(s, p + 1, radix, acc * radix + DigitValue(s[p]))
    ELSE acc
HasDigitAt(s, p, radix) == p <= Len(s) /\ IsDigit(s[p], radix)
ParseUnsigned(s, sign) ==
    IF Len(s) >= 2 /\ s[1] = "0" /\ s[2] \in {"x", "X"}
    THEN (IF HasDigitAt(s, 3, 16) THEN Number(sign * ParseDigits(s, 3, 16, 0))
          ELSE NaN)
    ELSE IF HasDigitAt(s, 1, 10) THEN Number(sign * ParseDigits(s, 1, 10, 0))
    ELSE NaN
ParseSigned(s) ==
    IF Len(s) > 0 /\ s[1] = "-" THEN ParseUnsigned(Tail(s), -1)
    ELSE IF Len(s) > 0 /\ s[1] = "+" THEN ParseUnsigned(Tail(s), 1)
    ELSE ParseUnsigned(s, 1)
parseInt(str) == ParseSigned(TrimStart(str))

\* parseKeyValue(data, seperator), lines 17-26: [key, value] or an LSPError.
parseKeyValueAt(data, seperatorIndex) ==
    IF seperatorIndex < 0 THEN LSPError
    ELSE [t |-> "pair",
          key |-> Trim(Substring(data, 0, seperatorIndex)),
          value |-> Trim(SubstringFrom(data, seperatorIndex + 1))]
parseKeyValue(data, seperator) ==
    parseKeyValueAt(data, IndexOf(data, seperator))

\* ------------------------------------------------------------------------
\* ContentType and Header (protocol.ts lines 28-121)
\* ------------------------------------------------------------------------

\* parameters[key] = value on an object kept as a sequence of [k, v].
ObjPut(obj, key, val) ==
    IF \E i \in 1..Len(obj) : obj[i].k = key
    THEN [i \in 1..Len(obj) |-> IF obj[i].k = key THEN KV(key, val) ELSE obj[i]]
    ELSE Append(obj, KV(key, val))

ContentType(baseType, subType, parameters) ==
    [t |-> "contentType", baseType |-> baseType, subType |-> subType,
     parameters |-> parameters]

\* The loop of lines 53-56 from field i on.
RECURSIVE ContentTypeParameters(_, _, _, _, _)
ContentTypeParameter(baseType, subType, fields, i, parameters, kv) ==
    IF kv.t = "throw" THEN kv
    ELSE ContentTypeParameters(baseType, subType, fields, i + 1,
                               ObjPut(parameters, kv.key, kv.value))
ContentTypeParameters(baseType, subType, fields, i, parameters) ==
    IF i > Len(fields) THEN ContentType(baseType, subType, parameters)
    ELSE ContentTypeParameter(baseType, subType, fields, i, parameters,
                              parseKeyValue(fields[i], <<"=">>))

\* ContentType.from(data), lines 39-59; line 47 takes the sub-type from
\* before the slash, as line 46 takes the base type.
ContentTypeFromFields(fields, slashIndex) ==
    IF slashIndex >= 0
    THEN ContentTypeParameters(Substring(fields[1], 0, slashIndex),
                               JStr(Substring(fields[1], 0, slashIndex)),
                               fields, 2, <<>>)
    ELSE ContentTypeParameters(fields[1], JNull, fields, 2, <<>>)
ContentTypeFromSplit(fields) ==
    ContentTypeFromFields(fields, IndexOf(fields[1], <<"/">>))
ContentTypeFrom(data) == ContentTypeFromSplit(Split(data, <<";">>))

\* ContentType.toString(), lines 61-75.
RECURSIVE ContentTypeParametersToString(_, _)
ContentTypeParametersToString(parameters, i) ==
    IF i > Len(parameters) THEN <<>>
    ELSE <<";">> \o parameters[i].k \o <<"=">> \o parameters[i].v
         \o ContentTypeParametersToString(parameters, i + 1)
ContentTypeToString(this) ==
    (IF this.subType.t = "string" /\ Len(this.subType.v) > 0
     THEN this.baseType \o <<"/">> \o this.subType.v
     ELSE this.baseType)
    \o ContentTypeParametersToString(this.parameters, 1)

\* Line 78.
defaultContentType ==
    ContentType(<<"a","p","p","l","i","c","a","t","i","o","n">>, JStr(<<"v",
        "s","c","o","d","e","-","j","s","o","n","r","p","c">>),
                <<KV(<<"c","h","a","r","s","e","t">>, <<"u","t","f","-",
                    "8">>)>>)

Header(contentLength, contentType) ==
    [t |-> "header", contentLength |-> contentLength,
     contentType |-> contentType]

\* Header.from(data), lines 89-116: the loop from field i on, then the
\* check of line 111.
RECURSIVE HeaderFields(_, _, _, _)
HeaderContentType(fields, i, contentLength, contentType) ==
    IF contentType.t = "throw" THEN contentType
    ELSE HeaderFields(fields, i + 1, contentLength, contentType)
HeaderField(fields, i, contentLength, contentType, kv) ==
    IF kv.t = "throw" THEN kv
    ELSE IF kv.key = <<"C","o","n","t","e","n","t","-","L","e","n","g","t",
        "h">>
    THEN HeaderFields(fields, i + 1, parseInt(kv.value), contentType)
    ELSE IF kv.key = <<"C","o","n","t","e","n","t","-","T","y","p","e">>
    THEN HeaderContentType(fields, i, contentLength, ContentTypeFrom(kv.value))
    ELSE HeaderFields(fields, i + 1, contentLength, contentType)
HeaderFields(fields, i, contentLength, contentType) ==
    IF i > Len(fields)
    THEN (IF contentLength.t = "null" THEN LSPError
          ELSE Header(contentLength, contentType))
    ELSE HeaderField(fields, i, contentLength, contentType,
                     parseKeyValue(fields[i], <<":">>))
HeaderFrom(data) ==
    HeaderFields(Split(data, <<"\r","\n">>), 1, JNull, defaultContentType)

\* The decimal digits of a number as a template literal prints it.
RECURSIVE NatToString(_)
NatToString(n) ==
    IF n < 10 THEN <<Digits[n + 1]>>
    ELSE NatToString(n \div 10) \o <<Digits[(n % 10) + 1]>>
NumberToString(x) ==
    IF x.nan THEN <<"N","a","N">>
    ELSE IF x.n < 0 THEN <<"-">> \o NatToString(-x.n)
    ELSE NatToString(x.n)

\* Header.toString(), lines 118-120.
HeaderToString(this) ==
    <<"C","o","n","t","e","n","t","-","L","e","n","g","t","h",":",
        " ">> \o NumberToString(this.contentLength)
    \o <<"\r","\n","C","o","n","t","e","n","t","-","T","y","p","e",":",
        " ">> \o ContentTypeToString(this.contentType)
    \o <<"\r","\n","\r","\n">>

\* tryReadHeader(data), lines 123-132: null, an LSPError, or the header
\* and the number of bytes read.
tryReadHeaderEnd(text, headerEnd, header) ==
    IF headerEnd < 0 THEN JNull
    ELSE IF header.t = "throw" THEN header
    ELSE [t |-> "read", header |-> header, bytesRead |-> headerEnd + 4]
tryReadHeaderAt(text, headerEnd) ==
    tryReadHeaderEnd(text, headerEnd,
                     IF headerEnd < 0 THEN JNull
                     ELSE HeaderFrom(Substring(text, 0, headerEnd)))
tryReadHeaderText(text) == tryReadHeaderAt(text, IndexOf(text, <<"\r","\n",
    "\r","\n">>))
tryReadHeader(data) == tryReadHeaderText(Latin1Decode(data))

\* isBufferEncoding(encoding), lines 134-151.
isBufferEncoding(encoding) ==
    encoding \in {<<"a","s","c","i","i">>, <<"u","t","f","8">>, <<"u","t","f",
        "-","8">>, <<"u","t","f","1","6","l","e">>, <<"u","c","s","2">>,
                  <<"u","c","s","-","2">>, <<"b","a","s","e","6","4">>, <<"b",
                      "a","s","e","6","4","u","r","l">>, <<"l","a","t","i",
                      "n","1">>, <<"b","i","n","a","r","y">>,
                  <<"h","e","x">>}

\* ------------------------------------------------------------------------
\* JSON.parse and JSON.stringify, as far as the texts and values that
\* occur need them: a number is an integer (no input has a fraction or an
\* exponent), and of the escapes of a string only \" \\ \/ \n \r \t occur.
\* ------------------------------------------------------------------------
CharAt(s, p) == IF p >= 1 /\ p <= Len(s) THEN s[p] ELSE ""
JsonWhiteSpace == {" ", "\t", "\r", "\n"}
ControlChars == {"\t", "\r", "\n", Byte00}

RECURSIVE SkipWhiteSpace(_, _)
SkipWhiteSpace(s, p) ==
    IF CharAt(s, p) \in JsonWhiteSpace THEN SkipWhiteSpace(s, p + 1) ELSE p

\* The result of parsing a part of the text: the value and the position
\* after it, or a failure.
Parsed(v, p) == [ok |-> TRUE, v |-> v, p |-> p]
ParseFailed == [ok |-> FALSE, v |-> Undefined, p |-> 0]

ParseLiteral(s, p, word, v) ==
    IF OccursAt(s, word, p) THEN Parsed(v, p + Len(word)) ELSE ParseFailed

RECURSIVE DigitsEnd(_, _)
DigitsEnd(s, p) == IF HasDigitAt(s, p, 10) THEN DigitsEnd(s, p + 1) ELSE p
ParseNumber(s, p, sign) ==
    IF ~HasDigitAt(s, p, 10) THEN ParseFailed
    ELSE IF s[p] = "0" THEN Parsed(JNum(0), p + 1)
    ELSE Parsed(JNum(sign * ParseDigits(s, p, 10, 0)), DigitsEnd(s, p))

Unescape(c) ==
    CASE c = "n" -> "\n"
      [] c = "r" -> "\r"
      [] c = "t" -> "\t"
      [] OTHER -> c
\* The characters of a string from p on, after the opening quote.
RECURSIVE ParseChars(_, _, _)
ParseChars(s, p, acc) ==
    IF p > Len(s) \/ s[p] \in ControlChars THEN ParseFailed
    ELSE IF s[p] = Quote THEN Parsed(JStr(acc), p + 1)
    ELSE IF s[p] = Backslash
    THEN (IF CharAt(s, p + 1) \in {Quote, Backslash, "/", "n", "r", "t"}
          THEN ParseChars(s, p + 2, Append(acc, Unescape(s[p + 1])))
          ELSE ParseFailed)
    ELSE ParseChars(s, p + 1, Append(acc, s[p]))

RECURSIVE ParseValue(_, _)
RECURSIVE ParseElements(_, _, _)
RECURSIVE ParseMembers(_, _, _)

\* After an element r of an array: a comma and more, or the bracket.
ParseElementEnd(s, r, q, acc) ==
    IF CharAt(s, q) = "," THEN ParseElements(s, q + 1, Append(acc, r.v))
    ELSE IF CharAt(s, q) = "]" THEN Parsed(JArr(Append(acc, r.v)), q + 1)
    ELSE ParseFailed
ParseElement(s, r, acc) ==
    IF ~r.ok THEN ParseFailed
    ELSE ParseElementEnd(s, r, SkipWhiteSpace(s, r.p), acc)
ParseElements(s, p, acc) == ParseElement(s, ParseValue(s, p), acc)
ParseArray(s, p) ==
    IF CharAt(s, p) = "]" THEN Parsed(JArr(<<>>), p + 1)
    ELSE ParseElements(s, p, <<>>)

\* After a member key: r of an object: a comma and more, or the brace.  A
\* key that occurs twice keeps its place and takes the later value.
ParseMemberEnd(s, key, r, q, acc) ==
    IF CharAt(s, q) = ","
    THEN ParseMembers(s, SkipWhiteSpace(s, q + 1), ObjPut(acc, key, r.v))
    ELSE IF CharAt(s, q) = "}" THEN Parsed(JObj(ObjPut(acc, key, r.v)), q + 1)
    ELSE ParseFailed
ParseMemberValue(s, key, r, acc) ==
    IF ~r.ok THEN ParseFailed
    ELSE ParseMemberEnd(s, key, r, SkipWhiteSpace(s, r.p), acc)
ParseMemberColon(s, k, q, acc) ==
    IF CharAt(s, q) # ":" THEN ParseFailed
    ELSE ParseMemberValue(s, k.v.v, ParseValue(s, q + 1), acc)
ParseMemberKey(s, k, acc) ==
    IF ~k.ok THEN ParseFailed
    ELSE ParseMemberColon(s, k, SkipWhiteSpace(s, k.p), acc)
ParseMembers(s, p, acc) ==
    IF CharAt(s, p) # Quote THEN ParseFailed
    ELSE ParseMemberKey(s, ParseChars(s, p + 1, <<>>), acc)
ParseObject(s, p) ==
    IF CharAt(s, p) = "}" THEN Parsed(JObj(<<>>), p + 1)
    ELSE ParseMembers(s, p, <<>>)

ParseValueAt(s, p) ==
    CASE CharAt(s, p) = "{" -> ParseObject(s, SkipWhiteSpace(s, p + 1))
      [] CharAt(s, p) = "[" -> ParseArray(s, SkipWhiteSpace(s, p + 1))
      [] CharAt(s, p) = Quote -> ParseChars(s, p + 1, <<>>)
      [] CharAt(s, p) = "-" -> ParseNumber(s, p + 1, -1)
      [] CharAt(s, p) = "t" -> ParseLiteral(s, p, <<"t","r","u","e">>,
          JBool(TRUE))
      [] CharAt(s, p) = "f" -> ParseLiteral(s, p, <<"f","a","l","s","e">>,
          JBool(FALSE))
      [] CharAt(s, p) = "n" -> ParseLiteral(s, p, <<"n","u","l","l">>, JNull)
      [] OTHER -> ParseNumber(s, p, 1)
ParseValue(s, p) == ParseValueAt(s, SkipWhiteSpace(s, p))

\* JSON.parse(text): the value, or a SyntaxError.
JsonParseEnd(text, r) ==
    IF r.ok /\ SkipWhiteSpace(text, r.p) > Len(text) THEN r.v ELSE SyntaxError
JsonParse(text) == JsonParseEnd(text, ParseValue(text, 1))

\* JSON.stringify(value) without indentation.
Escape(c) ==
    CASE c = Quote -> <<Backslash, Quote>>
      [] c = Backslash -> <<Backslash, Backslash>>
      [] c = "\n" -> <<Backslash, "n">>
      [] c = "\r" -> <<Backslash, "r">>
      [] c = "\t" -> <<Backslash, "t">>
      [] OTHER -> <<c>>
RECURSIVE EscapeChars(_)
EscapeChars(s) ==
    IF Len(s) = 0 THEN <<>> ELSE Escape(Head(s)) \o EscapeChars(Tail(s))
QuoteString(s) == <<Quote>> \o EscapeChars(s) \o <<Quote>>

RECURSIVE JsonStringify(_)
RECURSIVE StringifyElements(_, _)
RECURSIVE StringifyMembers(_, _, _)
\* An element that is undefined is written as null.
StringifyElements(arr, i) ==
    IF i > Len(arr) THEN <<>>
    ELSE (IF i > 1 THEN <<",">> ELSE <<>>)
         \o (IF arr[i].t = "undefined" THEN <<"n","u","l",
             "l">> ELSE JsonStringify(arr[i]))
         \o StringifyElements(arr, i + 1)
\* A member whose value is undefined is left out.
StringifyMembers(obj, i, first) ==
    IF i > Len(obj) THEN <<>>
    ELSE IF obj[i].v.t = "undefined" THEN StringifyMembers(obj, i + 1, first)
    ELSE (IF first THEN <<>> ELSE <<",">>)
         \o QuoteString(obj[i].k) \o <<":">> \o JsonStringify(obj[i].v)
         \o StringifyMembers(obj, i + 1, FALSE)
JsonStringify(value) ==
    CASE value.t = "null" -> <<"n","u","l","l">>
      [] value.t = "boolean" -> IF value.v THEN <<"t","r","u",
          "e">> ELSE <<"f","a","l","s","e">>
      [] value.t = "number" ->
           IF value.v < 0 THEN <<"-">> \o NatToString(-value.v)
           ELSE NatToString(value.v)
      [] value.t = "string" -> QuoteString(value.v)
      [] value.t = "array" -> <<"[">> \o StringifyElements(value.v,
          1) \o <<"]">>
      [] value.t = "object" ->
           <<"{">> \o StringifyMembers(value.v, 1, TRUE) \o <<"}">>

\* ------------------------------------------------------------------------
\* LSPToJSON (protocol.ts lines 153-254).  `this` is the record of the
\* stream's fields, with what it has pushed (emitted) and whether destroy
\* has been called.
\* ------------------------------------------------------------------------

\* Buffer.from(str, encoding) and buf.toString(encoding), for the
\* encodings that occur.
BufferFrom(str, encoding) ==
    CASE encoding \in {<<"u","t","f","8">>, <<"u","t","f","-",
        "8">>} -> Utf8Encode(str)
      [] encoding \in {<<"l","a","t","i","n","1">>, <<"b","i","n","a","r",
          "y">>} -> Latin1Encode(str)
BufferToString(bytes, encoding) ==
    CASE encoding \in {<<"u","t","f","8">>, <<"u","t","f","-",
        "8">>} -> Utf8Decode(bytes)
      [] encoding \in {<<"l","a","t","i","n","1">>, <<"b","i","n","a","r",
          "y">>} -> Latin1Decode(bytes)

\* source.copy(target, at): the bytes of source written into target from
\* offset at on, as far as they fit.
CopyInto(target, source, at) ==
    [i \in 1..Len(target) |->
        IF i > at /\ i <= at + Len(source) THEN source[i - at] ELSE target[i]]

\* buf.subarray(0, end), end clipped to the buffer.
FirstBytes(bytes, end) ==
    SubSeq(bytes, 1, IF end < 0 THEN 0 ELSE IF end > Len(bytes) THEN Len(bytes) ELSE end)

\* The constructor, lines 158-164; memory is what Buffer.allocUnsafe
\* happens to return.
NewLSPToJSON(memory) ==
    [pendingHeader |-> JNull, buffer |-> memory, bufferContentLength |-> 0,
     destroyed |-> FALSE, emitted |-> <<>>]

\* this.destroy(error)
Destroy(this) == [this EXCEPT !.destroyed = TRUE]

\* Lines 166-175.  Every byte of the new buffer of line 169 is written by
\* the two copies, so what allocUnsafe returned does not show.
GrowTo(buffer, newLength) ==
    IF newLength > Len(buffer)
    THEN CopyInto([i \in 1..newLength |-> Byte00], buffer, 0)
    ELSE buffer
appendChunkToBuffer(this, chunk) ==
    [this EXCEPT
        !.buffer = CopyInto(GrowTo(this.buffer,
                                   this.bufferContentLength + Len(chunk)),
                            chunk, this.bufferContentLength),
        !.bufferContentLength = this.bufferContentLength + Len(chunk)]

\* Lines 177-184.
discardBytes(this, amount) ==
    IF amount < this.bufferContentLength
    THEN [this EXCEPT
            !.buffer = CopyInto(this.buffer,
                                SubSeq(this.buffer, amount + 1,
                                       this.bufferContentLength), 0),
            !.bufferContentLength = this.bufferContentLength - amount]
    ELSE [this EXCEPT !.bufferContentLength = 0]

\* Lines 186-205, maybeHeader being what tryReadHeader(this.buffer) gave.
processHeaderRead(this, maybeHeader) ==
    IF maybeHeader.t = "throw" THEN Destroy(this)
    ELSE IF maybeHeader.t = "null" THEN this
    ELSE discardBytes([this EXCEPT !.pendingHeader = maybeHeader.header],
                      maybeHeader.bytesRead)
processHeaderData(this) == processHeaderRead(this, tryReadHeader(this.buffer))

\* Lines 212-215.
Charset(parameters) ==
    IF ~\E i \in 1..Len(parameters) : parameters[i].k = <<"c","h","a","r","s",
        "e","t">>
    THEN <<"u","t","f","-","8">>
    ELSE IF parameters[CHOOSE i \in 1..Len(parameters) :
                          parameters[i].k = <<"c","h","a","r","s","e",
                              "t">>].v = <<"u","t","f","8">>
    THEN <<"u","t","f","-","8">>
    ELSE parameters[CHOOSE i \in 1..Len(parameters) :
                       parameters[i].k = <<"c","h","a","r","s","e","t">>].v

\* Lines 221-233, json_object being what JSON.parse gave.
processPayloadParsed(this, json_object) ==
    IF json_object.t = "throw" THEN Destroy(this)
    ELSE [discardBytes([this EXCEPT !.emitted = Append(@, json_object)],
                       this.pendingHeader.contentLength.n)
            EXCEPT !.pendingHeader = JNull]
\* Lines 216-220.
processPayloadEncoded(this, encoding) ==
    IF ~isBufferEncoding(encoding) THEN Destroy(this)
    ELSE processPayloadParsed(this,
            JsonParse(BufferToString(
                FirstBytes(this.buffer, this.pendingHeader.contentLength.n),
                encoding)))
\* Lines 207-234; never called without a pending header (line 246).
processPayloadData(this) ==
    processPayloadEncoded(this,
                          Charset(this.pendingHeader.contentType.parameters))

\* a >= b for the numbers of JavaScript: false if b is NaN.
AtLeast(a, b) == ~b.nan /\ a >= b.n

\* Lines 244-252.
transformBuffer(this) ==
    IF this.pendingHeader.t = "null" THEN processHeaderData(this)
    ELSE IF AtLeast(this.bufferContentLength, this.pendingHeader.contentLength)
    THEN processPayloadData(this)
    ELSE this

\* _transform(chunk, encoding, callback), lines 236-253.  A chunk is a
\* Buffer, a string or another value.
BufferChunk(bytes) == [t |-> "buffer", v |-> bytes]
transform(this, chunk, encoding) ==
    IF chunk.t = "string"
    THEN transformBuffer(appendChunkToBuffer(this, BufferFrom(chunk.v, encoding)))
    ELSE IF chunk.t # "buffer" THEN Destroy(this)
    ELSE transformBuffer(appendChunkToBuffer(this, chunk.v))

\* ------------------------------------------------------------------------
\* JSONToLSP (protocol.ts lines 256-275)
\* ------------------------------------------------------------------------
NewJSONToLSP == [destroyed |-> FALSE, frames |-> <<>>]

\* Mutant of Frame: the length announced is that of the text in characters.
Frame_CharLength(text) ==
    Latin1Encode(HeaderToString(Header(Number(Len(text)), defaultContentType)))
    \o Utf8Encode(text)

\* Lines 268-272: the frame of the text JSON.stringify gave.
FramePayload(payload) ==
    Latin1Encode(HeaderToString(Header(Number(Len(payload)),
                                       defaultContentType)))
    \o payload
Frame(text) == FramePayload(Utf8Encode(text))

\* _transform(chunk, _encoding, callback), lines 263-274: line 265 does
\* not return, so the frame is pushed on the destroyed stream as well.
serialize(this, chunk) ==
    [destroyed |-> this.destroyed \/ TypeOf(chunk) # "object",
     frames |-> Append(this.frames, Frame(JsonStringify(chunk)))]

\* ------------------------------------------------------------------------
\* A converter on its own: chunks written to an LSPToJSON one at a time.
\* ------------------------------------------------------------------------

\* The size of the buffer the constructor allocates (1024 at line 161),
\* and the number of chunks written.
AllocSize == 24
MaxWrites == 4

\* What Buffer.allocUnsafe may return: memory that holds zeros, or what a
\* former buffer of the process held, here one that has read a message.
Padded(bytes) ==
    [i \in 1..AllocSize |-> IF i <= Len(bytes) THEN bytes[i] ELSE Byte00]
Uninitialized ==
    {Padded(<<>>), Padded(Latin1Encode(<<"{","}","n","t","e","n","t","-","L",
        "e","n","g","t","h",":"," ","2","\r","\n","\r","\n">>))}

\* The chunks written: a header and its payload as the test writes them
\* (test/protocol.ts lines 13-14, with a payload of two bytes), the header
\* in two pieces, header and payload in one chunk, the malformed inputs of
\* the tests (lines 23, 33), a header line without a colon, a header block
\* without Content-Length in two pieces, a string and a number.
HeaderOfTwo == Latin1Encode(<<"C","o","n","t","e","n","t","-","L","e","n","g",
    "t","h",":"," ","2","\r","\n","\r","\n">>)
FramingChunks ==
    <<BufferChunk(HeaderOfTwo),
      BufferChunk(Utf8Encode(<<"{","}">>)),
      BufferChunk(Latin1Encode(<<"C","o","n","t","e","n","t","-","L","e","n",
          "g","t","h",":"," ","2","\r","\n">>)),
      BufferChunk(Latin1Encode(<<"\r","\n">>)),
      BufferChunk(HeaderOfTwo \o Utf8Encode(<<"{","}">>)),
      BufferChunk(Utf8Encode(<<"<",">">>)),
      BufferChunk(Latin1Encode(<<"C","o","n","t","e","n","t","-","T","h","i",
          "n","g",":"," ","h","i","\r","\n","\r","\n">>)),
      BufferChunk(Latin1Encode(<<"C","o","n","t","e","n","t","-","L","e","n",
          "g","t","h"," ","2","\r","\n","\r","\n">>)),
      BufferChunk(Latin1Encode(<<"C","o">>)),
      BufferChunk(Latin1Encode(<<"1","2",":"," ","x","\r","\n","\r","\n">>)),
      JStr(<<"[","]">>),
      JNum(5)>>

\* The mock server is not running where the token server's streams are.
NoMockServer ==
    /\ test = Undefined
    /\ sequenceIndex = 0
    /\ unorderedReceived = EmptyArray
    /\ templateParams = JObj(<<>>)
    /\ running = FALSE
    /\ exitCode = -1
    /\ tasks = <<>>
    /\ log = <<>>
    /\ nControl = 0
    /\ call = NoCall
    /\ ret = NoResult

FramingInit ==
    /\ NoMockServer
    /\ \E memory \in Uninitialized : converter = NewLSPToJSON(memory)
    /\ serializer = Undefined
    /\ received = <<>>
    /\ written = <<>>

\* converter.write(chunk): a destroyed stream takes no chunk.
Write(chunk) ==
    /\ ~converter.destroyed
    /\ Len(received) < MaxWrites
    /\ converter' = transform(converter, chunk, <<"u","t","f","8">>)
    /\ received' = Append(received, chunk)
    /\ UNCHANGED <<mockVars, serializer, written>>

FramingNext == \E i \in 1..Len(FramingChunks) : Write(FramingChunks[i])

FramingSpec == FramingInit /\ [][FramingNext]_vars

\* ------------------------------------------------------------------------
\* A serializer and a converter: values written to a JSONToLSP, and each
\* frame it pushes written to an LSPToJSON, header first, then payload.
\* ------------------------------------------------------------------------

\* The number of values written.
MaxObjects == 2

\* The values written, each with the text JSON.stringify is to give for it
\* and the number of bytes of that text: the object of the test
\* (test/protocol.ts lines 43-44), an empty object, an object with a
\* character of two bytes and an escaped one, an array, and a string.
RoundTripValues ==
    <<[value |-> JObj(<<KV(<<"t","e","s","t","1">>, JNum(5)),
                        KV(<<"t","e","s","t","2">>, JArr(<<JNum(1),
                            JNum(2)>>))>>),
       text |-> <<"{",Quote,"t","e","s","t","1",Quote,":","5",",",Quote,"t",
           "e","s","t","2",Quote,":","[","1",",","2","]","}">>,
           length |-> <<"2","5">>],
      [value |-> JObj(<<>>), text |-> <<"{","}">>, length |-> <<"2">>],
      [value |-> JObj(<<KV(<<EAcute>>, JStr(<<"a",Quote,"b">>))>>),
       text |-> <<"{",Quote,EAcute,Quote,":",Quote,"a",Backslash,Quote,"b",
           Quote,"}">>, length |-> <<"1","3">>],
      [value |-> JArr(<<JNull, JBool(TRUE), JNum(-3)>>),
       text |-> <<"[","n","u","l","l",",","t","r","u","e",",","-","3","]">>,
           length |-> <<"1","4">>],
      [value |-> JStr(<<"x">>), text |-> <<Quote,"x",Quote>>,
          length |-> <<"3">>]>>

RoundTripInit ==
    /\ NoMockServer
    /\ \E memory \in Uninitialized : converter = NewLSPToJSON(memory)
    /\ serializer = NewJSONToLSP
    /\ received = <<>>
    /\ written = <<>>

\* serializer.write(value): a destroyed stream takes no value.
Serialize(value) ==
    /\ ~serializer.destroyed
    /\ Len(written) < MaxObjects
    /\ serializer' = serialize(serializer, value)
    /\ written' = Append(written, value)
    /\ UNCHANGED <<mockVars, converter, received>>

\* The header of a frame, up to the empty line, and what follows it.
HeaderLength(frame) == IndexOf(Latin1Decode(frame), <<"\r","\n","\r",
    "\n">>) + 4
HeaderPart(frame) == SubSeq(frame, 1, HeaderLength(frame))
PayloadPart(frame) == SubSeq(frame, HeaderLength(frame) + 1, Len(frame))

\* converter.write(part) for the next part of the frames pushed: the
\* header of frame k after 2(k-1) parts, its payload after 2k-1.
Feed(part) ==
    /\ ~converter.destroyed
    /\ converter' = transform(converter, BufferChunk(part), <<"u","t","f",
        "8">>)
    /\ received' = Append(received, BufferChunk(part))
    /\ UNCHANGED <<mockVars, serializer, written>>
FeedHeader ==
    /\ Len(received) % 2 = 0
    /\ Len(received) \div 2 < Len(serializer.frames)
    /\ Feed(HeaderPart(serializer.frames[(Len(received) \div 2) + 1]))
FeedPayload ==
    /\ Len(received) % 2 = 1
    /\ Feed(PayloadPart(serializer.frames[(Len(received) \div 2) + 1]))

RoundTripNext ==
    \/ \E i \in 1..Len(RoundTripValues) : Serialize(RoundTripValues[i].value)
    \/ FeedHeader
    \/ FeedPayload

RoundTripSpec == RoundTripInit /\ [][RoundTripNext]_vars

\* ========================================================================
\* Properties
\* ========================================================================
NoParams == JObj(<<>>)

ControlMethods == {"$/sleep", "$/terminate", "$/setTemplateParams"}

\* The inbound requests and notifications of a log, control requests included.
IsMessage(e) == e.dir = "in" /\ e.kind \in {"request", "notification"}
Messages(lg) == SelectSeq(lg, IsMessage)

\* The entry a handler has just appended for the event it handles.
Handling == Len(log') > Len(log)
NewIn == log'[Len(log) + 1]
HandlingRequest ==
    /\ Handling
    /\ NewIn.dir = "in"
    /\ NewIn.kind = "request"
HandlingScriptRequest == HandlingRequest /\ NewIn.method \notin ControlMethods
HandlingNotification ==
    /\ Handling
    /\ NewIn.dir = "in"
    /\ NewIn.kind = "notification"

Exhausted == sequenceIndex >= Len(test.sequence)
Slot == test.sequence[sequenceIndex + 1]

\* Structural equality of two JSON values.
RECURSIVE SameValue(_, _)
SameValue(a, b) ==
    /\ a.t = b.t
    /\ CASE a.t \in {"undefined", "null"} -> TRUE
         [] a.t \in {"number", "boolean", "string"} -> a.v = b.v
         [] a.t = "array" ->
              /\ Len(a.v) = Len(b.v)
              /\ \A i \in 1..Len(a.v) : SameValue(a.v[i], b.v[i])
         [] OTHER ->
              /\ Len(a.v) = Len(b.v)
              /\ \A i \in 1..Len(a.v) :
                    a.v[i].k = b.v[i].k /\ SameValue(a.v[i].v, b.v[i].v)

FatalExit == ~running /\ exitCode # 0

\* ------------------------------------------------------------------------
\* C1.  A script of ordered steps only, played by a client that sends exactly
\* the scripted messages in script order, with params that match each pattern,
\* and that answers every reaction request with a reply matching the expected
\* result: no fatal error is raised, the cursor counts the messages sent, and
\* it equals len(sequence) once the whole script has been sent.
\* ------------------------------------------------------------------------
OnlyOrdered ==
    \A i \in 1..Len(test.sequence) :
        test.sequence[i].type \in {"request", "notification"}

\* The k-th message of the client is the k-th scripted step.
Scripted(msgs) ==
    /\ Len(msgs) <= Len(test.sequence)
    /\ \A k \in 1..Len(msgs) :
          /\ msgs[k].kind = test.sequence[k].type
          /\ matchMessage(NoParams, test.sequence[k], msgs[k].method,
                          msgs[k].value) = "true"

\* Every reaction request answered so far got a reply matching its expected
\* result, and no reaction failed.
GoodReplies ==
    \A p \in 1..Len(log) :
        log[p].dir = "in" =>
          /\ log[p].kind # "error"
          /\ log[p].kind = "reply" =>
                processRequestResult(NoParams, log[p].value,
                    tasks[log[p].task].list[log[p].idx].result) = "ok"

ScriptedClient == OnlyOrdered /\ Scripted(Messages(log)) /\ GoodReplies

C1_OrderedScriptCompletes ==
    ScriptedClient =>
        /\ running
        /\ exitCode = -1
        /\ sequenceIndex = Len(Messages(log))
        /\ Len(Messages(log)) = Len(test.sequence) =>
              sequenceIndex = Len(test.sequence)

C1_Witness ==
    /\ ScriptedClient
    /\ Len(test.sequence) = 3
    /\ sequenceIndex = Len(test.sequence)
    /\ Len(tasks) = 2
    /\ \A t \in 1..Len(tasks) : tasks[t].phase = "done"

\* ------------------------------------------------------------------------
\* C2.  For an unordered group of N members, whatever the order in which the
\* N requests (one intended for each member) arrive, the cursor advances by
\* exactly one with no fatal error; after fewer than N of them the cursor is
\* unchanged and the process is still running (the group is in progress).
\* ------------------------------------------------------------------------
GroupSlots ==
    {c \in 0..(Len(test.sequence) - 1) :
        test.sequence[c + 1].type = "request-unordered"}

\* The requests and notifications handled while the cursor was c.
MessagesAt(c) ==
    SelectSeq(log, LAMBDA e : IsMessage(e) /\ e.pre = c)

\* The members of the group a request is meant for.
IntendedMembers(content, e) ==
    {i \in 1..Len(content) :
        /\ e.kind = "request"
        /\ matchMessage(NoParams, content[i], e.method, e.value) = "true"}

\* Every message is a request meant for one member, and no member is meant
\* twice.
OneForEach(content, evs) ==
    /\ \A k \in 1..Len(evs) : Cardinality(IntendedMembers(content, evs[k])) = 1
    /\ \A k, l \in 1..Len(evs) :
          k # l => IntendedMembers(content, evs[k])
                       \cap IntendedMembers(content, evs[l]) = {}

GroupOutcome(c) ==
    LET content == test.sequence[c + 1].content
        evs == MessagesAt(c)
    IN  (Len(evs) >= 1 /\ OneForEach(content, evs)) =>
          /\ Len(evs) < Len(content) => running /\ sequenceIndex = c
          /\ Len(evs) = Len(content) =>
                /\ sequenceIndex >= c + 1
                /\ Len(MessagesAt(c + 1)) = 0 => sequenceIndex = c + 1

C2_AnyArrivalOrder == GoodReplies => \A c \in GroupSlots : GroupOutcome(c)

\* ------------------------------------------------------------------------
\* C3.  0 <= sequenceIndex <= len(sequence) always; sequenceIndex never
\* decreases and one step changes it by 0 or 1; it increases by one on each
\* successful ordered-step match and, while the slot is an unordered group,
\* only on the match that completes the last still-unmatched member.
\* ------------------------------------------------------------------------
\* The script requests handled while the cursor was c (each of them matched
\* a member when the process went on after it).
ScriptRequestsAt(c) ==
    SelectSeq(log, LAMBDA e : /\ e.dir = "in"
                              /\ e.kind = "request"
                              /\ e.pre = c
                              /\ e.method \notin ControlMethods)

CursorInRange == 0 <= sequenceIndex /\ sequenceIndex <= Len(test.sequence)

OrderedMatch ==
    /\ ~Exhausted
    /\ \/ HandlingScriptRequest /\ Slot.type = "request"
       \/ HandlingNotification /\ Slot.type = "notification"
    /\ matchMessage(templateParams, Slot, NewIn.method, NewIn.value) = "true"

GroupMatch ==
    /\ ~Exhausted
    /\ HandlingScriptRequest
    /\ Slot.type = "request-unordered"
    /\ running'

CursorStep ==
    /\ sequenceIndex' \in {sequenceIndex, sequenceIndex + 1}
    /\ OrderedMatch => sequenceIndex' = sequenceIndex + 1
    /\ GroupMatch =>
          (sequenceIndex' = sequenceIndex + 1
             <=> Len(ScriptRequestsAt(sequenceIndex)) = Len(Slot.content) - 1)

C3_CursorMonotone == [](CursorInRange) /\ [][CursorStep]_vars

\* ------------------------------------------------------------------------
\* C4.  With the cursor on an ordered request step {method m, pattern p,
\* result r}: a request with method m whose params are a superset-match of p
\* advances the cursor by one and is answered with r; a request with method m
\* whose params do not match p, or with another method, is fatal (non-zero
\* exit), leaves the cursor where it was and is not answered.
\* ------------------------------------------------------------------------
\* A string without "{" holds no placeholder.
PlainString(str) == \A i \in 1..Len(str) : str[i] # "{"

\* A pattern without placeholders, in values and in keys.
RECURSIVE PlainPattern(_)
PlainPattern(p) ==
    CASE p.t = "string" -> PlainString(p.v)
      [] p.t = "array" -> \A i \in 1..Len(p.v) : PlainPattern(p.v[i])
      [] p.t = "object" ->
           \A i \in 1..Len(p.v) : PlainString(p.v[i].k) /\ PlainPattern(p.v[i].v)
      [] OTHER -> TRUE

\* Superset match of a pattern without placeholders: equal scalars, arrays of
\* equal length matching element by element, and every key of a pattern
\* object present in the actual object with a matching value.
RECURSIVE Covers(_, _)
Covers(p, a) ==
    CASE p.t \in {"number", "boolean", "string"} -> a.t = p.t /\ a.v = p.v
      [] p.t = "null" -> a.t = "null"
      [] p.t = "array" ->
           /\ a.t = "array"
           /\ Len(a.v) = Len(p.v)
           /\ \A i \in 1..Len(p.v) : Covers(p.v[i], a.v[i])
      [] p.t = "object" ->
           /\ a.t = "object"
           /\ \A i \in 1..Len(p.v) :
                 \E j \in 1..Len(a.v) :
                    a.v[j].k = p.v[i].k /\ Covers(p.v[i].v, a.v[j].v)
      [] OTHER -> FALSE

\* The request being handled matches the ordered step under the cursor.
MatchesSlot ==
    IF Slot.params.t # "undefined" /\ PlainPattern(Slot.params)
    THEN /\ NewIn.method = Slot.method
         /\ NewIn.value.t # "undefined"
         /\ Covers(Slot.params, NewIn.value)
    ELSE matchMessage(templateParams, Slot, NewIn.method, NewIn.value) = "true"

\* The handler returns r, at once or after the reactions it awaits.
WillReturn(r) ==
    IF Len(Slot.intermediate) = 0
    THEN /\ Len(log') = Len(log) + 2
         /\ log'[Len(log) + 2].kind = "response"
         /\ log'[Len(log) + 2].id = Len(log) + 1
         /\ SameValue(log'[Len(log) + 2].value, r)
    ELSE /\ Len(tasks') = Len(tasks) + 1
         /\ tasks'[Len(tasks')].awaited
         /\ tasks'[Len(tasks')].owner = Len(log) + 1
         /\ SameValue(tasks'[Len(tasks')].result, r)

OrderedRequestStep ==
    (HandlingScriptRequest /\ ~Exhausted /\ Slot.type = "request") =>
        IF MatchesSlot
        THEN /\ running'
             /\ sequenceIndex' = sequenceIndex + 1
             /\ WillReturn(Slot.result)
        ELSE /\ FatalExit'
             /\ sequenceIndex' = sequenceIndex
             /\ log' = Append(log, NewIn)

\* Every answer to a request that met an ordered request step is r.
AnswersAreScripted ==
    \A q \in 1..Len(log) :
        (/\ log[q].dir = "out"
         /\ log[q].kind = "response"
         /\ log[log[q].id].method \notin ControlMethods
         /\ test.sequence[log[log[q].id].pre + 1].type = "request")
        => SameValue(log[q].value, test.sequence[log[log[q].id].pre + 1].result)

C4_OrderedRequestStep == [](AnswersAreScripted) /\ [][OrderedRequestStep]_vars

\* A request foo {x:1,y:9} was matched by the step {foo, {x:1}} and answered
\* with its result after the reactions, and a later request that does not
\* match its step ended the run.
C4_Witness ==
    /\ FatalExit
    /\ sequenceIndex = 2
    /\ Len(log) >= 3
    /\ log[1].kind = "request"
    /\ log[1].method = "foo"
    /\ SameValue(log[1].value, X1Y9)
    /\ SameValue(test.sequence[1].params, X1)
    /\ \E q \in 2..Len(log) :
          /\ log[q].kind = "response"
          /\ log[q].id = 1
          /\ SameValue(log[q].value, JNum(10))
    /\ test.sequence[3].type = "request"
    /\ log[Len(log)].kind = "request"
    /\ log[Len(log)].method = "foo"
    /\ log[Len(log)].pre = 2

\* ------------------------------------------------------------------------
\* C5.  A $/terminate request with numeric code c ends the process with exit
\* status c wherever the cursor is and whatever the script holds; it matches
\* nothing, sends nothing, leaves the cursor and the completion bits alone,
\* and nothing happens after the process has ended.
\* ------------------------------------------------------------------------
TerminateStep ==
    (HandlingRequest /\ NewIn.method = "$/terminate" /\ NewIn.value.t = "number")
    => /\ ~running'
       /\ exitCode' = NewIn.value.v
       /\ sequenceIndex' = sequenceIndex
       /\ unorderedReceived' = unorderedReceived
       /\ tasks' = tasks
       /\ log' = Append(log, NewIn)

DeadIsDead == ~running => UNCHANGED vars

C5_TerminateAnywhere == [][TerminateStep /\ DeadIsDead]_vars

\* $/terminate with code 3 in the middle of an unordered group, a reaction
\* request still unanswered.
C5_Witness ==
    /\ ~running
    /\ exitCode = 3
    /\ log[Len(log)].method = "$/terminate"
    /\ ~Exhausted
    /\ Slot.type = "request-unordered"
    /\ \E i \in DOMAIN unorderedReceived.elems : unorderedReceived.elems[i]
    /\ \E i \in DOMAIN unorderedReceived.elems : ~unorderedReceived.elems[i]
    /\ \E t \in 1..Len(tasks) : tasks[t].phase = "awaitReply"

\* ------------------------------------------------------------------------
\* C6.  $/sleep, $/terminate and $/setTemplateParams are recognised before
\* the sequence tracker at every cursor position (also on a notification
\* step, on an unordered group and past the end of the script) and are never
\* matched against the script: the cursor, the completion bits and the
\* reaction tasks are untouched, $/sleep with a number and
\* $/setTemplateParams with a valid payload return undefined and the run goes
\* on.
\* ------------------------------------------------------------------------
ValidControl ==
    \/ NewIn.method = "$/sleep" /\ NewIn.value.t = "number"
    \/ /\ NewIn.method = "$/setTemplateParams"
       /\ NewIn.value.t = "object"
       /\ \A i \in 1..Len(NewIn.value.v) :
             \/ NewIn.value.v[i].k = <<"e","x","p","a","n","d">>
             \/ NewIn.value.v[i].k = <<"r","e","p","l","a","c","e">>

ControlStep ==
    (HandlingRequest /\ NewIn.method \in ControlMethods) =>
        /\ sequenceIndex' = sequenceIndex
        /\ unorderedReceived' = unorderedReceived
        /\ tasks' = tasks
        /\ ValidControl =>
              /\ running'
              /\ log' = log \o <<NewIn, OutResponse(Undefined, Len(log) + 1)>>

C6_ControlBeforeTracker == [][ControlStep]_vars

\* A $/sleep answered while the cursor is on a notification step.
C6_Witness ==
    /\ running
    /\ ~Exhausted
    /\ Slot.type = "notification"
    /\ Len(log) = 2
    /\ log[1].method = "$/sleep"
    /\ log[2].kind = "response"

\* ------------------------------------------------------------------------
\* C7.  Once the script is exhausted, every inbound request that is no
\* control request, and every inbound notification, is fatal: the process
\* exits non-zero, nothing is returned and the cursor stays at len(sequence).
\* ------------------------------------------------------------------------
ExhaustedStep ==
    (Exhausted /\ (HandlingScriptRequest \/ HandlingNotification)) =>
        /\ FatalExit'
        /\ sequenceIndex' = Len(test.sequence)
        /\ log' = Append(log, NewIn)

C7_ExhaustedIsFatal == [][ExhaustedStep]_vars

\* A notification after the three steps of a script have been matched.
C7_Witness ==
    /\ FatalExit
    /\ sequenceIndex = Len(test.sequence)
    /\ Len(test.sequence) = 3
    /\ log[Len(log)].kind = "notification"
    /\ log[Len(log)].dir = "in"
    /\ log[Len(log)].pre = 3

\* ------------------------------------------------------------------------
\* C8.  A kind mismatch is fatal: a request (no control request) on a
\* notification step, and a notification on a request step or an unordered
\* group, end the process with a non-zero status; the cursor does not advance
\* and no completion bit is set.
\* ------------------------------------------------------------------------
KindMismatch ==
    /\ ~Exhausted
    /\ \/ HandlingScriptRequest /\ Slot.type = "notification"
       \/ HandlingNotification /\ Slot.type \in {"request", "request-unordered"}

KindMismatchStep ==
    KindMismatch =>
        /\ FatalExit'
        /\ sequenceIndex' = sequenceIndex
        /\ unorderedReceived' = unorderedReceived

C8_KindMismatchIsFatal == [][KindMismatchStep]_vars

\* A notification named like a member of the unordered group under the
\* cursor, one member of which is already received.
C8_Witness ==
    /\ FatalExit
    /\ ~Exhausted
    /\ Slot.type = "request-unordered"
    /\ log[Len(log)].dir = "in"
    /\ log[Len(log)].kind = "notification"
    /\ log[Len(log)].method = "bar"
    /\ unorderedReceived.length = 3
    /\ unorderedReceived.elems[0]
    /\ ~unorderedReceived.elems[1]

\* ------------------------------------------------------------------------
\* C9.  The reactions of one matched step are sent strictly in list order and
\* one at a time: the k-th message sent for a step is its k-th reaction, and
\* reaction i+1 is not sent before reaction i, when it is a request, has been
\* answered with a reply that matches its expected result.
\* ------------------------------------------------------------------------
IsReaction(e) == e.dir = "out" /\ e.kind \in {"notification", "request"}

\* The positions in the log of the reactions sent by task t.
SentBy(t) == {q \in 1..Len(log) : IsReaction(log[q]) /\ log[q].task = t}

\* The number of reactions task t has sent before position q.
SentBefore(t, q) == Cardinality({r \in SentBy(t) : r < q})

\* Reaction i of task t was answered before position q, with a reply that
\* matches the expected result.
AnsweredBefore(t, i, q) ==
    \E r \in 1..(q - 1) :
        /\ log[r].dir = "in"
        /\ log[r].kind = "reply"
        /\ log[r].task = t
        /\ log[r].idx = i
        /\ processRequestResult(NoParams, log[r].value, tasks[t].list[i].result)
              = "ok"

C9_ReactionsInListOrder ==
    \A t \in 1..Len(tasks) :
        \A q \in SentBy(t) :
            /\ log[q].idx = SentBefore(t, q) + 1
            /\ log[q].method = tasks[t].list[log[q].idx].method
            /\ (log[q].idx > 1 /\ tasks[t].list[log[q].idx - 1].type # "notification")
                  => AnsweredBefore(t, log[q].idx - 1, q)

\* Both reactions of a step were sent, the first of them a request.
C9_Witness ==
    \E t \in 1..Len(tasks) :
        /\ Len(tasks[t].list) = 2
        /\ tasks[t].list[1].type = "request"
        /\ Cardinality(SentBy(t)) = 2
        /\ tasks[t].phase = "done"

\* ------------------------------------------------------------------------
\* C10.  The scripted result of a matched request that has reactions, be it
\* an ordered request step or a member of an unordered group, is returned
\* only after all its reactions have been dispatched: every reaction sent and
\* every reaction request answered.
\* ------------------------------------------------------------------------
\* All reactions of task t were sent, and its reaction requests answered,
\* before position q of the log.
DispatchedBefore(t, q) ==
    \A i \in 1..Len(tasks[t].list) :
        /\ \E r \in SentBy(t) : r < q /\ log[r].idx = i
        /\ tasks[t].list[i].type # "notification" =>
              \E r \in 1..(q - 1) :
                  /\ log[r].dir = "in"
                  /\ log[r].kind = "reply"
                  /\ log[r].task = t
                  /\ log[r].idx = i

C10_ResultAfterReactions ==
    \A q \in 1..Len(log) :
        (log[q].dir = "out" /\ log[q].kind = "response") =>
            \A t \in 1..Len(tasks) :
                tasks[t].owner = log[q].id => DispatchedBefore(t, q)

\* ------------------------------------------------------------------------
\* C11.  While processIntermediate is suspended awaiting the reply to a
\* reaction request, no other inbound request or notification is handled:
\* from the moment the reaction request is sent to the moment its reply has
\* been verified, sequenceIndex, the completion bits and the template
\* parameters do not change.
\* ------------------------------------------------------------------------
AwaitingReply == \E t \in 1..Len(tasks) : tasks[t].phase = "awaitReply"

SuspendedStep ==
    AwaitingReply =>
        /\ ~HandlingRequest
        /\ ~HandlingNotification
        /\ sequenceIndex' = sequenceIndex
        /\ unorderedReceived' = unorderedReceived
        /\ templateParams' = templateParams

C11_NoInboundWhileAwaiting == [][SuspendedStep]_vars

\* ------------------------------------------------------------------------
\* C12.  The reply to a reaction request is verified with the expected
\* result as the pattern and the reply as the live value, so a reply with
\* more keys than expected is accepted and one with fewer is not; a reply
\* that does not match, a reply where no result is expected and an absent
\* reply where one is expected all end the process with a non-zero status.
\* ------------------------------------------------------------------------
HandlingReply ==
    /\ Handling
    /\ NewIn.dir = "in"
    /\ NewIn.kind = "reply"

\* The expected result of the reaction request the handled reply answers.
Expected == tasks[NewIn.task].list[NewIn.idx].result

\* The reply satisfies the expected result: the pattern is the expected
\* result, the live value the reply.
ReplyAccepted(expected, reply) ==
    IF expected.t = "undefined" THEN reply.t = "undefined"
    ELSE /\ reply.t # "undefined"
         /\ IF PlainPattern(expected) THEN Covers(expected, reply)
            ELSE matchDeepEqual(templateParams, expected, reply) = "true"

ReplyStep ==
    HandlingReply =>
        IF ReplyAccepted(Expected, NewIn.value)
        THEN /\ running'
             /\ \/ tasks'[NewIn.task].phase = "done"
                \/ tasks'[NewIn.task].i = NewIn.idx + 1
        ELSE FatalExit' /\ tasks' = tasks

C12_ReplyVerified == [][ReplyStep]_vars

\* The reply {ok:true, n:1} to a reaction request that expects {ok:true} was
\* accepted, and a reply to the next one, which expects no result, ended the
\* run.
C12_Witness ==
    /\ FatalExit
    /\ Len(log) >= 2
    /\ log[Len(log)].kind = "reply"
    /\ log[Len(log)].value.t # "undefined"
    /\ tasks[log[Len(log)].task].list[log[Len(log)].idx].result.t = "undefined"
    /\ \E q \in 1..(Len(log) - 1) :
          /\ log[q].kind = "reply"
          /\ log[q].task = log[Len(log)].task
          /\ SameValue(log[q].value, OkTrueMore)
          /\ SameValue(tasks[log[q].task].list[log[q].idx].result, OkTrue)

\* ------------------------------------------------------------------------
\* C13.  A failure inside reaction dispatch - a send that fails, a reaction
\* request answered with an error, a reply that does not match, a template
\* lookup that fails while a reply is verified - ends the process with a
\* non-zero status, also in a continuation that no inbound handler awaits
\* (reactions of an unordered-group member or of a notification step): the
\* continuation sends nothing more and nothing happens after it.
\* ------------------------------------------------------------------------
DispatchFailure ==
    /\ Handling
    /\ NewIn.dir = "in"
    /\ \/ NewIn.kind = "error"
       \/ NewIn.kind = "reply" /\ ~ReplyAccepted(Expected, NewIn.value)

DispatchFailureStep ==
    DispatchFailure =>
        /\ ~running'
        /\ exitCode' = 1
        /\ log' = Append(log, NewIn)

\* A failure recorded in the log is the last thing that happened.
FailureIsLast ==
    \A q \in 1..Len(log) :
        (log[q].dir = "in" /\ log[q].kind = "error") => q = Len(log) /\ FatalExit

C13_DispatchFailureIsFatal == [](FailureIsLast) /\ [][DispatchFailureStep]_vars

\* The reply {id:42} to a reaction request of a group member, which no
\* handler awaits, met parameters that no longer define the names of the
\* expected result.
C13_Witness ==
    /\ FatalExit
    /\ log[Len(log)].kind = "reply"
    /\ SameValue(log[Len(log)].value, Id42)
    /\ ~tasks[log[Len(log)].task].awaited
    /\ SameValue(tasks[log[Len(log)].task].list[log[Len(log)].idx].result, TplIdK)
    /\ SameValue(templateParams, ParamsB)

\* ------------------------------------------------------------------------
\* C14.  Tie-break in an unordered group: when several members that are not
\* yet completed match an inbound request, the member with the lowest index
\* is marked complete, its result is returned and its reactions are
\* dispatched.
\* ------------------------------------------------------------------------
\* The responses given to the script requests handled while the cursor was c.
ResponsesAt(c) ==
    {q \in 1..Len(log) :
        /\ log[q].dir = "out"
        /\ log[q].kind = "response"
        /\ log[log[q].id].method \notin ControlMethods
        /\ log[log[q].id].pre = c}

\* The members (1-based) of the group at c that a request has completed so
\* far: those whose result was returned (results are distinct in a group).
CompletedAt(c) ==
    {i \in 1..Len(test.sequence[c + 1].content) :
        \E q \in ResponsesAt(c) :
            SameValue(log[q].value, test.sequence[c + 1].content[i].result)}

\* The members not yet completed that the request being handled matches.
Candidates ==
    {i \in 1..Len(Slot.content) :
        /\ i \notin CompletedAt(sequenceIndex)
        /\ matchMessage(templateParams, Slot.content[i], NewIn.method,
                        NewIn.value) = "true"}

\* Member i was chosen: its bit is set, its result returned, its reactions
\* started.
Chosen(i) ==
    /\ running'
    /\ ArrayGet(unorderedReceived', i - 1)
    /\ \A j \in 1..Len(Slot.content) :
          (j # i /\ j \notin CompletedAt(sequenceIndex))
              => ~ArrayGet(unorderedReceived', j - 1)
    /\ log'[Len(log')].kind = "response"
    /\ log'[Len(log')].id = Len(log) + 1
    /\ SameValue(log'[Len(log')].value, Slot.content[i].result)
    /\ Len(tasks') = Len(tasks) + 1
    /\ tasks'[Len(tasks')].list = Slot.content[i].intermediate
    /\ log'[Len(log) + 2].method = Slot.content[i].intermediate[1].method

TieStep ==
    (/\ HandlingScriptRequest
     /\ ~Exhausted
     /\ Slot.type = "request-unordered"
     /\ Cardinality(Candidates) >= 2)
    => Chosen(Least(Candidates))

C14_LowestIndexWins == [][TieStep]_vars

\* The same for the first group of a script only.
TieStepFirstGroup == sequenceIndex = 0 => TieStep
TieFirstGroupOnly == [][TieStepFirstGroup]_vars
TieFirstGroupSeen ==
    /\ Len(log) >= 3
    /\ log[1].pre = 0
    /\ log[3].kind = "response"
    /\ SameValue(log[1].value, X1)
    /\ SameValue(log[3].value, JNum(1))
    /\ Len(test.sequence[1].content) = 2
    /\ test.sequence[1].content[2].method = "foo"

\* ------------------------------------------------------------------------
\* C15.  A $/setTemplateParams request with a valid payload replaces the
\* template parameters wholesale, at any time, also between two members of
\* an unordered group: afterwards exactly the names of the payload's expand
\* and replace tables resolve, and every name of the previous parameters
\* that the payload does not hold, a whole omitted table included, fails
\* lookup.
\* ------------------------------------------------------------------------
ExpandKey == <<"e","x","p","a","n","d">>
ReplaceKey == <<"r","e","p","l","a","c","e">>

\* Parameter names looked up by the properties.
Names == {<<"a">>, <<"b">>, <<"k">>, <<"z">>}

\* A payload that is a plain object with no key but expand and replace.
ValidPayload(p) ==
    /\ p.t = "object"
    /\ \A i \in 1..Len(p.v) : p.v[i].k \in {ExpandKey, ReplaceKey}

\* The names the table called key of payload p defines.
NamesOf(p, key) ==
    {n \in Names :
        \E i \in 1..Len(p.v) :
            /\ p.v[i].k = key
            /\ \E j \in 1..Len(p.v[i].v.v) : p.v[i].v.v[j].k = n}

\* The lookups ${n} and #{n} succeed under the parameters tp.
ExpandResolves(tp, n) ==
    processTemplate(tp, <<"$", "{">> \o n \o <<"}">>).t # "throw"
ReplaceResolves(tp, n) ==
    processTemplate(tp, <<"#", "{">> \o n \o <<"}">>).t # "throw"

\* Exactly the names of payload p resolve under tp.
ResolvesExactly(tp, p) ==
    \A n \in Names :
        /\ ExpandResolves(tp, n) <=> n \in NamesOf(p, ExpandKey)
        /\ ReplaceResolves(tp, n) <=> n \in NamesOf(p, ReplaceKey)

HandlingSetParams == HandlingRequest /\ NewIn.method = "$/setTemplateParams"

SetParamsStep ==
    (HandlingSetParams /\ ValidPayload(NewIn.value)) =>
        /\ running'
        /\ SameValue(templateParams', NewIn.value)
        /\ ResolvesExactly(templateParams', NewIn.value)
        /\ sequenceIndex' = sequenceIndex
        /\ unorderedReceived' = unorderedReceived

\* The valid payloads received so far, in order.
ValidSets ==
    SelectSeq(log, LAMBDA e : /\ e.dir = "in"
                              /\ e.kind = "request"
                              /\ e.method = "$/setTemplateParams"
                              /\ ValidPayload(e.value))

\* The parameters stay as the payload left them until the next valid payload.
ParamsOnlyBySet ==
    ~SameValue(templateParams', templateParams)
        => HandlingSetParams /\ ValidPayload(NewIn.value)

C15_ParamsReplacedWholesale == [][SetParamsStep /\ ParamsOnlyBySet]_vars

\* Between two members of a group the parameters {expand:{a}, replace:{k}}
\* were replaced by {expand:{b}}: a and k no longer resolve.
C15_Witness ==
    /\ running
    /\ ~Exhausted
    /\ Slot.type = "request-unordered"
    /\ \E i \in DOMAIN unorderedReceived.elems : unorderedReceived.elems[i]
    /\ \E i \in DOMAIN unorderedReceived.elems : ~unorderedReceived.elems[i]
    /\ Len(ValidSets) = 2
    /\ SameValue(ValidSets[1].value, ParamsAK)
    /\ SameValue(ValidSets[2].value, ParamsB)
    /\ log[Len(log) - 1].method = "$/setTemplateParams"
    /\ log[Len(log) - 2].kind = "response"
    /\ ExpandResolves(templateParams, <<"b">>)
    /\ ~ExpandResolves(templateParams, <<"a">>)
    /\ ~ReplaceResolves(templateParams, <<"k">>)

\* ------------------------------------------------------------------------
\* C16.  A $/setTemplateParams request whose payload is not a non-null,
\* non-array object, or that has a key other than expand and replace, is a
\* fatal validation error: the process exits non-zero, the request is not
\* answered and the current template parameters stay as they were.
\* ------------------------------------------------------------------------
BadSetParamsStep ==
    (HandlingSetParams /\ ~ValidPayload(NewIn.value)) =>
        /\ FatalExit'
        /\ SameValue(templateParams', templateParams)
        /\ log' = Append(log, NewIn)

C16_BadPayloadIsFatal == [][BadSetParamsStep]_vars

\* The payload {expand:{a}, other:1} ended the run while the parameters
\* {expand:{a}, replace:{k}} were in force.
C16_Witness ==
    /\ FatalExit
    /\ log[Len(log)].method = "$/setTemplateParams"
    /\ SameValue(log[Len(log)].value, ParamsMixed)
    /\ SameValue(templateParams, ParamsAK)
    /\ ReplaceResolves(templateParams, <<"k">>)

\* ------------------------------------------------------------------------
\* C17.  processTemplate on a string that is not a whole-string #{name}
\* equals the single-pass substitution: every ${name} of the original
\* string, left to right, is replaced by expand[name] and all other text is
\* kept, whatever the lengths of the replacements and the number of
\* placeholders; text inserted by a replacement is not scanned again.
\* ------------------------------------------------------------------------
\* The placeholder ${n} stands at position p of s.
RefPlaceholderAt(s, p, n) ==
    /\ p + Len(n) + 2 <= Len(s)
    /\ SubSeq(s, p, p + Len(n) + 2) = <<"$", "{">> \o n \o <<"}">>

RefName(s, p) == CHOOSE n \in Names : RefPlaceholderAt(s, p, n)

RefDefined(tp, n) == HasKey(tp, ExpandKey) /\ HasKey(GetKey(tp, ExpandKey), n)

RefValue(tp, n) == GetKey(GetKey(tp, ExpandKey), n).v

\* Some placeholder of s names a parameter that expand does not hold.
RefMissing(tp, s) ==
    \E p \in 1..Len(s) : \E n \in Names :
        RefPlaceholderAt(s, p, n) /\ ~RefDefined(tp, n)

\* The single-pass substitution of s from position p on.
RECURSIVE RefExpand(_, _, _)
RefExpand(tp, s, p) ==
    IF p > Len(s) THEN <<>>
    ELSE IF \E n \in Names : RefPlaceholderAt(s, p, n)
    THEN RefValue(tp, RefName(s, p))
            \o RefExpand(tp, s, p + Len(RefName(s, p)) + 3)
    ELSE <<s[p]>> \o RefExpand(tp, s, p + 1)

\* s is #{n} and nothing else.
WholeReplaceForm(s) == \E n \in Names : s = <<"#", "{">> \o n \o <<"}">>

TemplateReturned == call.fn = "processTemplate" /\ ret.t # "none"

C17_SinglePassSubstitution ==
    (TemplateReturned /\ ~WholeReplaceForm(call.ref.v)) =>
        IF RefMissing(templateParams, call.ref.v) THEN ret.t = "throw"
        ELSE /\ ret.t = "string"
             /\ ret.v = RefExpand(templateParams, call.ref.v, 1)

\* "${a}-${b}" with a -> "123", b -> "4" gave "123-4".
C17_Witness ==
    /\ TemplateReturned
    /\ call.ref.v = <<"$","{","a","}","-","$","{","b","}">>
    /\ RefDefined(templateParams, <<"a">>)
    /\ RefValue(templateParams, <<"a">>) = <<"1","2","3">>
    /\ RefValue(templateParams, <<"b">>) = <<"4">>
    /\ ret.t = "string"
    /\ ret.v = <<"1","2","3","-","4">>

\* Further cases: "${a}${b}" with a -> "x", b -> "yy" gave "xyy"; and a
\* replacement that is itself placeholder text was left as it is.
TwoPlaceholdersSeen ==
    /\ TemplateReturned
    /\ call.ref.v = <<"$","{","a","}","$","{","b","}">>
    /\ ret.t = "string"
    /\ ret.v = <<"x","y","y">>
NoRescanSeen ==
    /\ TemplateReturned
    /\ call.ref.v = <<"$","{","b","}","$","{","a","}","x">>
    /\ ret.t = "string"
    /\ ret.v = <<"$","{","a","}","x">>

\* ------------------------------------------------------------------------
\* C18.  A pattern string that is exactly #{name} expands to replace[name]
\* with its own JSON type: "#{k}" with replace = {k: 42} matches the number
\* 42 and not the string "42".  A string that holds #{name} together with
\* other text is not replaced.
\* ------------------------------------------------------------------------
WholeName(s) == CHOOSE n \in Names : s = <<"#", "{">> \o n \o <<"}">>

ReplaceDefined(tp, n) ==
    HasKey(tp, ReplaceKey) /\ HasKey(GetKey(tp, ReplaceKey), n)

ReplaceValue(tp, n) == GetKey(GetKey(tp, ReplaceKey), n)

\* A string without "$" holds no ${name}.
NoDollar(s) == \A i \in 1..Len(s) : s[i] # "$"

MatchReturned == call.fn = "matchDeepEqual" /\ ret.t # "none"

\* processTemplate("#{n}") is replace[n], whatever its type.
WholeStringReplaced ==
    (TemplateReturned /\ WholeReplaceForm(call.ref.v)) =>
        IF ReplaceDefined(templateParams, WholeName(call.ref.v))
        THEN SameValue(ret, ReplaceValue(templateParams, WholeName(call.ref.v)))
        ELSE ret.t = "throw"

\* A string with #{n} and other text, and no ${name}, comes back as it is.
EmbeddedMarkerKept ==
    (TemplateReturned /\ ~WholeReplaceForm(call.ref.v) /\ NoDollar(call.ref.v))
        => ret.t = "string" /\ ret.v = call.ref.v

\* The pattern "#{n}" matches what replace[n] matches, number against
\* number and string against string.
ReplacedPatternMatches ==
    (/\ MatchReturned
     /\ call.ref.t = "string"
     /\ WholeReplaceForm(call.ref.v)
     /\ ReplaceDefined(templateParams, WholeName(call.ref.v))
     /\ PlainPattern(ReplaceValue(templateParams, WholeName(call.ref.v))))
    => (ret.v = "true"
          <=> Covers(ReplaceValue(templateParams, WholeName(call.ref.v)),
                     call.test))

\* The pattern "x#{k}" matches the string "x#{k}" and nothing else.
EmbeddedPatternMatches ==
    (/\ MatchReturned
     /\ call.ref.t = "string"
     /\ ~WholeReplaceForm(call.ref.v)
     /\ NoDollar(call.ref.v))
    => (ret.v = "true"
          <=> call.test.t = "string" /\ call.test.v = call.ref.v)

C18_WholeStringReplacement ==
    /\ WholeStringReplaced
    /\ EmbeddedMarkerKept
    /\ ReplacedPatternMatches
    /\ EmbeddedPatternMatches

\* "#{k}" with replace = {k: 42} matched the number 42.
C18_Witness ==
    /\ MatchReturned
    /\ call.ref.t = "string"
    /\ call.ref.v = <<"#","{","k","}">>
    /\ ReplaceDefined(templateParams, <<"k">>)
    /\ SameValue(ReplaceValue(templateParams, <<"k">>), JNum(42))
    /\ SameValue(call.test, JNum(42))
    /\ ret.v = "true"

\* ... and did not match the string "42".
StringNotMatchedSeen ==
    /\ MatchReturned
    /\ call.ref.t = "string"
    /\ call.ref.v = <<"#","{","k","}">>
    /\ ReplaceDefined(templateParams, <<"k">>)
    /\ SameValue(ReplaceValue(templateParams, <<"k">>), JNum(42))
    /\ SameValue(call.test, JStr(<<"4","2">>))
    /\ ret.v = "false"

\* ------------------------------------------------------------------------
\* C19.  matchDeepEqual(pattern, actual) is an asymmetric subset match: on
\* objects it holds iff every pattern key, after key expansion, is present
\* in actual with a recursively matching value (keys only in actual are
\* ignored, the empty pattern object matches any object); on arrays it holds
\* iff the lengths are equal and the elements match pairwise in order.
\* ------------------------------------------------------------------------
\* A pattern without placeholders matches exactly what it covers.
PlainPatternMatches ==
    (MatchReturned /\ PlainPattern(call.ref)) =>
        ret.v = IF Covers(call.ref, call.test) THEN "true" ELSE "false"

\* An object pattern whose keys are ${name} templates and whose values hold
\* no placeholder.
KeyedPattern(p) ==
    /\ p.t = "object"
    /\ ~PlainPattern(p)
    /\ \A i \in 1..Len(p.v) :
          /\ PlainPattern(p.v[i].v)
          /\ ~WholeReplaceForm(p.v[i].k)

\* Every key of p, expanded, is a key of a with a value the pattern's value
\* covers.
CoversKeyed(tp, p, a) ==
    /\ a.t = "object"
    /\ \A i \in 1..Len(p.v) :
          /\ ~RefMissing(tp, p.v[i].k)
          /\ \E j \in 1..Len(a.v) :
                /\ a.v[j].k = RefExpand(tp, p.v[i].k, 1)
                /\ Covers(p.v[i].v, a.v[j].v)

KeyedPatternMatches ==
    (MatchReturned /\ KeyedPattern(call.ref)) =>
        (ret.v = "true" <=> CoversKeyed(templateParams, call.ref, call.test))

C19_SubsetMatch == PlainPatternMatches /\ KeyedPatternMatches

\* {"a":1} matched {"a":1,"b":2}.
C19_Witness ==
    /\ MatchReturned
    /\ SameValue(call.ref, A1)
    /\ SameValue(call.test, A1B2)
    /\ ret.v = "true"

\* Further cases: [1,2] did not match [1,2,3]; {"a":1,"b":2} did not match
\* {"a":1}; {} matched a nested object; {"${a}":1} matched {"id":1}.
ArrayLengthSeen ==
    /\ MatchReturned
    /\ SameValue(call.ref, L12)
    /\ SameValue(call.test, L123)
    /\ ret.v = "false"
AsymmetrySeen ==
    /\ MatchReturned
    /\ SameValue(call.ref, A1B2)
    /\ SameValue(call.test, A1)
    /\ ret.v = "false"
EmptyPatternSeen ==
    /\ MatchReturned
    /\ SameValue(call.ref, EmptyObj)
    /\ SameValue(call.test, NestedMore)
    /\ ret.v = "true"
ExpandedKeySeen ==
    /\ MatchReturned
    /\ SameValue(call.ref, KeyedA)
    /\ SameValue(call.test, Id1)
    /\ ret.v = "true"

\* ------------------------------------------------------------------------
\* C20.  A template lookup against an unset parameter (${name} with name not
\* in expand, #{name} with name not in replace, also when no parameters were
\* ever set) that occurs while an inbound message is matched is fatal.  It
\* is never an ordinary non-match: in the scan of an unordered group a later
\* member that would match is not tried.
\* ------------------------------------------------------------------------
\* The lookups of the template string s fail under tp.
StringFails(tp, s) ==
    IF WholeReplaceForm(s) THEN ~ReplaceDefined(tp, WholeName(s))
    ELSE RefMissing(tp, s)

\* The value a key template that resolves stands for.
KeyValue(tp, s) ==
    IF WholeReplaceForm(s) THEN ReplaceValue(tp, WholeName(s))
    ELSE JStr(RefExpand(tp, s, 1))

\* A string pattern, or an object pattern of one entry whose value is a
\* string or holds no placeholder.
SimplePattern(p) ==
    \/ p.t = "string"
    \/ /\ p.t = "object"
       /\ Len(p.v) = 1
       /\ p.v[1].v.t = "string" \/ PlainPattern(p.v[1].v)

\* Matching the simple pattern p against the live value a runs into a
\* lookup that fails: in p itself, in its key, or in its value once the key
\* is found in a.
LookupFails(tp, p, a) ==
    IF p.t = "string" THEN StringFails(tp, p.v)
    ELSE /\ a.t = "object"
         /\ \/ StringFails(tp, p.v[1].k)
            \/ /\ KeyValue(tp, p.v[1].k).t = "string"
               /\ HasKey(a, KeyValue(tp, p.v[1].k).v)
               /\ p.v[1].v.t = "string"
               /\ StringFails(tp, p.v[1].v.v)

\* Matching the scripted message msg against the message being handled runs
\* into a failing lookup.
UnsetLookup(msg) ==
    /\ msg.method = NewIn.method
    /\ msg.params.t # "undefined"
    /\ NewIn.value.t # "undefined"
    /\ SimplePattern(msg.params)
    /\ LookupFails(templateParams, msg.params, NewIn.value)

\* The scan of the group reaches member i (1-based): the members before it
\* are received already or do not match.
ScanReaches(i) ==
    /\ ~ArrayGet(unorderedReceived, i - 1)
    /\ \A j \in 1..(i - 1) :
          \/ ArrayGet(unorderedReceived, j - 1)
          \/ matchMessage(templateParams, Slot.content[j], NewIn.method,
                          NewIn.value) = "false"

UnsetLookupOccurs ==
    /\ ~Exhausted
    /\ \/ /\ HandlingScriptRequest
          /\ Slot.type = "request"
          /\ UnsetLookup(Slot)
       \/ /\ HandlingNotification
          /\ Slot.type = "notification"
          /\ UnsetLookup(Slot)
       \/ /\ HandlingScriptRequest
          /\ Slot.type = "request-unordered"
          /\ \E i \in 1..Len(Slot.content) :
                ScanReaches(i) /\ UnsetLookup(Slot.content[i])

UnsetLookupStep ==
    UnsetLookupOccurs =>
        /\ FatalExit'
        /\ sequenceIndex' = sequenceIndex
        /\ tasks' = tasks
        /\ log' = Append(log, NewIn)
        /\ \A i \in DOMAIN unorderedReceived'.elems :
              unorderedReceived'.elems[i] => ArrayGet(unorderedReceived, i)

C20_UnsetLookupIsFatal == [][UnsetLookupStep]_vars

\* No parameters were ever set; the request foo {x:1} met the group whose
\* first member has the pattern {"x": "#{k}"} and whose second member
\* matches foo {x:1}: the run ended.
C20_Witness ==
    /\ FatalExit
    /\ Len(log) = 1
    /\ log[1].kind = "request"
    /\ log[1].method = "foo"
    /\ SameValue(log[1].value, X1)
    /\ SameValue(templateParams, NoParams)
    /\ Slot.type = "request-unordered"
    /\ SameValue(Slot.content[1].params, TplX)
    /\ matchMessage(NoParams, Slot.content[2], "foo", X1) = "true"

\* ------------------------------------------------------------------------
\* C21: The initialize request is answered with the script's
\* initializeResult when the script has one and otherwise with an object
\* holding empty capabilities; the initialize request and the initialized
\* notification are not matched against the sequence: they leave
\* sequenceIndex, the completion bits and the template parameters
\* unchanged, start no reaction and never end the run.
\* ------------------------------------------------------------------------
HandlingInitialize == Handling /\ NewIn.kind = "initialize"
HandlingInitialized == Handling /\ NewIn.kind = "initialized"

HasInitializeResult == test.initializeResult.t # "undefined"

\* The answer the claim prescribes.
HandshakeAnswer ==
    IF HasInitializeResult THEN test.initializeResult
    ELSE JObj(<<KV(<<"c","a","p","a","b","i","l","i","t","i","e","s">>, JObj(<<>>))>>)

TrackerUntouched ==
    /\ sequenceIndex' = sequenceIndex
    /\ unorderedReceived' = unorderedReceived
    /\ templateParams' = templateParams
    /\ tasks' = tasks
    /\ running'

InitializeStep ==
    /\ HandlingInitialize =>
          /\ TrackerUntouched
          /\ Len(log') = Len(log) + 2
          /\ log'[Len(log) + 2].kind = "response"
          /\ log'[Len(log) + 2].id = Len(log) + 1
          /\ SameValue(log'[Len(log) + 2].value, HandshakeAnswer)
    /\ HandlingInitialized =>
          /\ TrackerUntouched
          /\ Len(log') = Len(log) + 1

C21_InitializeHandshake == [][InitializeStep]_vars

\* An initialize request was answered with the script's result while an
\* unordered group was under way, and the group went on afterwards.
C21_Witness ==
    /\ HasInitializeResult
    /\ \E i \in 1..Len(log) :
          /\ log[i].kind = "initialize"
          /\ log[i].pre = 0
          /\ i > 1
          /\ log[i + 1].kind = "response"
          /\ SameValue(log[i + 1].value, test.initializeResult)
          /\ sequenceIndex = 1
    /\ unorderedReceived.length > 0
    /\ running

\* The default answer, and an initialized notification in mid-script.
DefaultAnswerSeen ==
    /\ ~HasInitializeResult
    /\ \E i \in 1..Len(log) :
          /\ log[i].kind = "initialize"
          /\ log[i + 1].kind = "response"
          /\ HasKey(log[i + 1].value, <<"c","a","p","a","b","i","l","i","t","i","e","s">>)
    /\ \E i \in 1..Len(log) : log[i].kind = "initialized" /\ log[i].pre > 0

\* ------------------------------------------------------------------------
\* C25.  Completion bits belong to one group only: whenever the cursor
\* reaches an unordered group, the second or a later group of the script
\* included and whatever its size, every member starts unmatched; and the
\* cursor moves past the group only after each of its members has been
\* matched exactly once.
\* ------------------------------------------------------------------------
AtGroup == running /\ ~Exhausted /\ Slot.type = "request-unordered"

\* No request has been handled yet with the cursor at the current slot.
FreshGroup == AtGroup /\ Len(ScriptRequestsAt(sequenceIndex)) = 0

\* The scan of lines 251-268 treats no member as already received.
MembersStartUnmatched ==
    FreshGroup =>
        \A i \in 0..(Len(Slot.content) - 1) : ~ArrayGet(unorderedReceived, i)

\* The cursor leaves a group with the request that matches its last member:
\* one request was accepted for each member.
LeavesGroup ==
    /\ HandlingScriptRequest
    /\ ~Exhausted
    /\ Slot.type = "request-unordered"
    /\ sequenceIndex' = sequenceIndex + 1

\* The responses in lg that return the result of member i of the group at c
\* to a request handled while the cursor was c.
ReturnsOf(lg, c, i) ==
    {q \in 1..Len(lg) :
        /\ lg[q].dir = "out"
        /\ lg[q].kind = "response"
        /\ lg[lg[q].id].method \notin ControlMethods
        /\ lg[lg[q].id].pre = c
        /\ SameValue(lg[q].value, test.sequence[c + 1].content[i].result)}

GroupLeftWhenComplete ==
    LeavesGroup =>
        /\ Len(ScriptRequestsAt(sequenceIndex)) + 1 = Len(Slot.content)
        /\ \A i \in 1..Len(Slot.content) :
              Cardinality(ReturnsOf(log', sequenceIndex, i)) = 1

C25_BitsBelongToOneGroup ==
    [](MembersStartUnmatched) /\ [][GroupLeftWhenComplete]_vars

\* Both parts hold for the first group of a script.
FirstGroupBits ==
    [](sequenceIndex = 0 => MembersStartUnmatched)
        /\ [][sequenceIndex = 0 => GroupLeftWhenComplete]_vars
FirstGroupLeftSeen ==
    /\ sequenceIndex = 1
    /\ test.sequence[1].type = "request-unordered"
    /\ Len(test.sequence[1].content) = 3
    /\ running

\* Each part fails on its own in a later group.
LaterGroupStartsUnmatched == [](MembersStartUnmatched)
LaterGroupLeftWhenComplete == [][GroupLeftWhenComplete]_vars

\* ------------------------------------------------------------------------
\* C26.  Reactions of different matched steps do not interleave on the wire:
\* if step A is matched before step B, every reaction of A is sent, and
\* every reaction request of A answered, before any reaction of B is sent;
\* for ordered request steps, members of unordered groups and notification
\* steps alike.
\* ------------------------------------------------------------------------
\* The step of task t was matched before the step of task u.
MatchedBefore(t, u) == tasks[t].owner < tasks[u].owner

\* No reaction of task u is sent before task t is through.
InTurn(t, u) == \A q \in SentBy(u) : DispatchedBefore(t, q)

C26_NoInterleaving ==
    \A t, u \in 1..Len(tasks) : MatchedBefore(t, u) => InTurn(t, u)

\* The same where the earlier step is an ordered request step, whose handler
\* awaits its reactions (line 242), and where it is a member of a group,
\* whose handler does not (line 264).
AwaitedInTurn ==
    \A t, u \in 1..Len(tasks) :
        (MatchedBefore(t, u) /\ tasks[t].awaited) => InTurn(t, u)
MemberInTurn ==
    \A t, u \in 1..Len(tasks) :
        (MatchedBefore(t, u) /\ ~tasks[t].awaited
           /\ log[tasks[t].owner].kind = "request") => InTurn(t, u)

\* ------------------------------------------------------------------------
\* C27.  Within an unordered group each member is matched by at most one
\* inbound request: a completion bit that is set is never cleared while the
\* group is the current slot, a completed member is skipped by the scan, and
\* a request that matches only members already completed (a repeated
\* message, say) is a fatal sequence mismatch.
\* ------------------------------------------------------------------------
GroupRequest ==
    /\ HandlingScriptRequest
    /\ ~Exhausted
    /\ Slot.type = "request-unordered"

\* The members (1-based) whose bit is set in the array bits.
BitsSet(bits) == {i \in 1..Len(Slot.content) : ArrayGet(bits, i - 1)}

\* The members the request being handled matches.
MatchingMembers ==
    {i \in 1..Len(Slot.content) :
        matchMessage(templateParams, Slot.content[i], NewIn.method,
                     NewIn.value) = "true"}

\* A member is completed when its bit is set or its result has been
\* returned to a request of this group.
Completed == BitsSet(unorderedReceived) \cup CompletedAt(sequenceIndex)

BitsKept ==
    (~Exhausted /\ Slot.type = "request-unordered"
       /\ sequenceIndex' = sequenceIndex)
    => BitsSet(unorderedReceived) \subseteq BitsSet(unorderedReceived')

\* A request that is accepted completes one member that was not completed.
MatchedOnce ==
    (GroupRequest /\ running') =>
        \E i \in MatchingMembers \ Completed :
            /\ BitsSet(unorderedReceived') = BitsSet(unorderedReceived) \cup {i}
            /\ SameValue(log'[Len(log')].value, Slot.content[i].result)

RepeatIsFatal ==
    (GroupRequest /\ MatchingMembers # {} /\ MatchingMembers \subseteq Completed)
    => /\ ~running'
       /\ exitCode' = 1
       /\ sequenceIndex' = sequenceIndex
       /\ BitsSet(unorderedReceived') = BitsSet(unorderedReceived)
       /\ Len(log') = Len(log) + 1

C27_MemberMatchedOnce == [][BitsKept /\ MatchedOnce /\ RepeatIsFatal]_vars

\* A request was accepted for a member of a group and the same request,
\* which matches no other member, was sent again and was fatal.
C27_Witness ==
    /\ ~running
    /\ exitCode = 1
    /\ Len(log) >= 3
    /\ log[Len(log)].dir = "in"
    /\ log[Len(log)].kind = "request"
    /\ test.sequence[log[Len(log)].pre + 1].type = "request-unordered"
    /\ \E q \in 1..(Len(log) - 2) :
          /\ log[q].dir = "in"
          /\ log[q].kind = "request"
          /\ log[q].pre = log[Len(log)].pre
          /\ log[q].method = log[Len(log)].method
          /\ SameValue(log[q].value, log[Len(log)].value)
          /\ \E r \in (q + 1)..(Len(log) - 1) :
                log[r].kind = "response" /\ log[r].id = q
    /\ unorderedReceived.length = 2
    /\ ~ArrayGet(unorderedReceived, 0)
    /\ ArrayGet(unorderedReceived, 1)

\* ------------------------------------------------------------------------
\* C28.  Handling one inbound request against an unordered group performs
\* the member scan, the setting of the completion bit, the all-complete
\* check and the cursor advance as one uninterrupted step: no other inbound
\* event and no reaction continuation runs between the bit being set and the
\* check, or in a state in which the request has set the last bit of the
\* group and the cursor has not yet advanced.
\* ------------------------------------------------------------------------
AllMembers == 1..Len(Slot.content)

\* The step that sets a bit also checks and advances: when it has set the
\* last bit of the group the cursor is past the group in the very next state.
SetsCheckAndAdvances ==
    (GroupRequest /\ running') =>
        /\ \E i \in AllMembers \ BitsSet(unorderedReceived) :
              BitsSet(unorderedReceived') = BitsSet(unorderedReceived) \cup {i}
        /\ BitsSet(unorderedReceived') = AllMembers
              => sequenceIndex' = sequenceIndex + 1
        /\ sequenceIndex' \in {sequenceIndex, sequenceIndex + 1}

\* No other step, a reaction continuation or the handler of a notification or
\* of a control request, touches the bits or the cursor of a group.
OthersKeepGroup ==
    (~Exhausted /\ Slot.type = "request-unordered" /\ ~GroupRequest) =>
        /\ BitsSet(unorderedReceived') = BitsSet(unorderedReceived)
        /\ sequenceIndex' = sequenceIndex

C28_GroupStepAtomic == [][SetsCheckAndAdvances /\ OthersKeepGroup]_vars

\* The last member of a group of three was matched while the reply to the
\* reaction request of an earlier member was still awaited: the cursor is
\* past the group.
C28_Witness ==
    /\ running
    /\ sequenceIndex = 1
    /\ test.sequence[1].type = "request-unordered"
    /\ unorderedReceived.length = 3
    /\ \A i \in 0..2 : ArrayGet(unorderedReceived, i)
    /\ \E t \in 1..Len(tasks) : tasks[t].phase = "awaitReply"

\* What a later event finds in a group in which a request was accepted: some
\* member is still unmatched.
GroupInProgress ==
    (AtGroup /\ CompletedAt(sequenceIndex) # {})
        => BitsSet(unorderedReceived) # AllMembers

\* ------------------------------------------------------------------------
\* C29.  A fatal mismatch leaves the script state untouched: when an inbound
\* request or notification fails to match (wrong method, pattern mismatch,
\* wrong kind, no unmatched member matches, template error), sequenceIndex
\* and the completion bits have the values they had before the message, no
\* reaction has been sent for it and no scripted result is returned.
\* ------------------------------------------------------------------------
\* The indices (0-based) whose completion bit is set.
SetBits(arr) == {i \in DOMAIN arr.elems : arr.elems[i]}

\* The handler of a script message ends the run.
FatalMismatch ==
    /\ HandlingScriptRequest \/ HandlingNotification
    /\ ~running'

\* Why the message being handled does not match the current slot.
WrongKind ==
    /\ ~Exhausted
    /\ \/ HandlingNotification /\ Slot.type # "notification"
       \/ HandlingScriptRequest /\ Slot.type = "notification"
OrderedVerdict ==
    matchMessage(templateParams, Slot, NewIn.method, NewIn.value)
OrderedMismatch ==
    /\ ~Exhausted
    /\ \/ HandlingNotification /\ Slot.type = "notification"
       \/ HandlingScriptRequest /\ Slot.type = "request"
    /\ OrderedVerdict # "true"
NoMemberMatches ==
    /\ GroupRequest
    /\ MatchingMembers \ BitsSet(unorderedReceived) = {}
    /\ \A i \in 1..Len(Slot.content) :
          matchMessage(templateParams, Slot.content[i], NewIn.method,
                       NewIn.value) # "throw"

MismatchIsFatal == (WrongKind \/ OrderedMismatch \/ NoMemberMatches) => ~running'

StateUntouched ==
    FatalMismatch =>
        /\ exitCode' = 1
        /\ sequenceIndex' = sequenceIndex
        /\ SetBits(unorderedReceived') = SetBits(unorderedReceived)
        /\ templateParams' = templateParams
        /\ tasks' = tasks
        /\ log' = Append(log, NewIn)

C29_MismatchLeavesState == [][MismatchIsFatal /\ StateUntouched]_vars

\* A template error in the member scan ended the run after one member of
\* the group had been matched and while its reaction was pending: the bit of
\* that member is the only one set and the cursor is on the group.
C29_Witness ==
    /\ ~running
    /\ exitCode = 1
    /\ sequenceIndex = 0
    /\ test.sequence[1].type = "request-unordered"
    /\ SetBits(unorderedReceived) = {1}
    /\ log[Len(log)].dir = "in"
    /\ log[Len(log)].kind = "request"
    /\ matchMessage(templateParams, test.sequence[1].content[1],
                    log[Len(log)].method, log[Len(log)].value) = "throw"
    /\ \E t \in 1..Len(tasks) : tasks[t].phase # "done"

\* The other causes: a wrong method and a pattern mismatch on an ordered
\* step, a notification on a request step, a request no unmatched member
\* matches.
LastIn == log[Len(log)]
FatalAtSlot(type) ==
    /\ ~running
    /\ exitCode = 1
    /\ LastIn.dir = "in"
    /\ LastIn.pre < Len(test.sequence)
    /\ test.sequence[LastIn.pre + 1].type = type
WrongMethodSeen ==
    /\ FatalAtSlot("request")
    /\ LastIn.kind = "request"
    /\ LastIn.method # test.sequence[LastIn.pre + 1].method
PatternMismatchSeen ==
    /\ FatalAtSlot("request")
    /\ LastIn.kind = "request"
    /\ LastIn.method = test.sequence[LastIn.pre + 1].method
    /\ matchMessage(templateParams, test.sequence[LastIn.pre + 1],
                    LastIn.method, LastIn.value) = "false"
WrongKindSeen ==
    /\ FatalAtSlot("request-unordered")
    /\ LastIn.kind = "notification"
    /\ SetBits(unorderedReceived) # {}
NoMemberSeen ==
    /\ FatalAtSlot("request-unordered")
    /\ LastIn.kind = "request"
    /\ LastIn.method = "baz"
    /\ Len(test.sequence[LastIn.pre + 1].content) = 2
    /\ unorderedReceived.length = 2
    /\ SetBits(unorderedReceived) = {}

\* ------------------------------------------------------------------------
\* C30.  A value substituted through a whole-string #{name} pattern is used
\* verbatim in the comparison: no template expansion is applied to
\* replace[name] itself nor to any string or key nested inside it, so a
\* replace value that holds the text ${x} or #{y}, at top level or nested in
\* an object or array, matches only an actual value that holds that literal
\* text and never raises a template lookup error.
\* ------------------------------------------------------------------------
\* matchDeepEqual was called with a pattern "#{n}" whose name is set.
ReplacedCall ==
    /\ MatchReturned
    /\ call.ref.t = "string"
    /\ WholeReplaceForm(call.ref.v)
    /\ ReplaceDefined(templateParams, WholeName(call.ref.v))

Substituted == ReplaceValue(templateParams, WholeName(call.ref.v))

C30_ReplaceValueVerbatim ==
    ReplacedCall =>
        /\ ret.v # "throw"
        /\ ret.v = "true" <=> Covers(Substituted, call.test)

\* The claim holds of a replace value that is itself a string, whatever its
\* text, and of values without placeholder text.
TopLevelVerbatim ==
    (ReplacedCall /\ (Substituted.t = "string" \/ PlainPattern(Substituted)))
        => /\ ret.v # "throw"
           /\ ret.v = "true" <=> Covers(Substituted, call.test)
TopLevelVerbatimSeen ==
    /\ ReplacedCall
    /\ SameValue(Substituted, DollarZ)
    /\ SameValue(call.test, DollarZ)
    /\ ret.v = "true"

\* What the code does with a nested string: it expands it.
NestedThrowSeen ==
    /\ ReplacedCall
    /\ SameValue(Substituted, ListDollarZ)
    /\ SameValue(call.test, ListDollarZ)
    /\ ret.v = "throw"
NestedKeyExpandedSeen ==
    /\ ReplacedCall
    /\ SameValue(Substituted, KeyedA)
    /\ SameValue(call.test, Id1)
    /\ ret.v = "true"

\* ------------------------------------------------------------------------
\* C22: header, then payload
\* ------------------------------------------------------------------------

\* The bytes a chunk brings, and the bytes of a sequence of chunks.
BytesOf(chunk) ==
    CASE chunk.t = "buffer" -> chunk.v
      [] chunk.t = "string" -> BufferFrom(chunk.v, <<"u","t","f","8">>)
      [] OTHER -> <<>>
RECURSIVE StreamOf(_)
StreamOf(chunks) ==
    IF Len(chunks) = 0 THEN <<>>
    ELSE BytesOf(Head(chunks)) \o StreamOf(Tail(chunks))
OnlyBytes(chunks) ==
    \A i \in 1..Len(chunks) : chunks[i].t \in {"buffer", "string"}

\* What a stream of bytes holds, read from its start: complete messages
\* (their objects), and then nothing ("waiting"), a complete header and
\* nothing more ("header"), a part of a header or a header and a part of
\* its payload ("partial"), a header block or payload that is malformed
\* ("malformed"), or a header whose Content-Length is no length ("unread").
Framed(state, objects, header) ==
    [state |-> state, objects |-> objects, header |-> header]
RECURSIVE Framing(_, _)
FramingPayload(bytes, header, objects, n, json) ==
    IF Len(bytes) = 0 THEN Framed("header", objects, header)
    ELSE IF Len(bytes) < n THEN Framed("partial", objects, header)
    ELSE IF json.t = "throw" THEN Framed("malformed", objects, header)
    ELSE Framing(SubSeq(bytes, n + 1, Len(bytes)), Append(objects, json))
FramingHeader(bytes, objects, r) ==
    IF r.t = "null" THEN Framed("partial", objects, JNull)
    ELSE IF r.t = "throw" THEN Framed("malformed", objects, JNull)
    ELSE IF r.header.contentLength.nan \/ r.header.contentLength.n < 0
    THEN Framed("unread", objects, JNull)
    ELSE FramingPayload(SubSeq(bytes, r.bytesRead + 1, Len(bytes)), r.header,
                        objects, r.header.contentLength.n,
                        JsonParse(BufferToString(
                            FirstBytes(SubSeq(bytes, r.bytesRead + 1, Len(bytes)),
                                       r.header.contentLength.n),
                            Charset(r.header.contentType.parameters))))
Framing(bytes, objects) ==
    IF Len(bytes) = 0 THEN Framed("waiting", objects, JNull)
    ELSE FramingHeader(bytes, objects, tryReadHeader(bytes))

SameValues(a, b) ==
    /\ Len(a) = Len(b)
    /\ \A i \in 1..Len(a) : SameValue(a[i], b[i])

\* The converter has emitted the objects of the complete messages and no
\* more, and holds the header that has come without its payload, if any.
HeaderThenPayload(ref) ==
    ref.state \in {"waiting", "header"}
    => /\ ~converter.destroyed
       /\ SameValues(converter.emitted, ref.objects)
       /\ converter.pendingHeader.t = ref.header.t
       /\ ref.state = "header" => converter.pendingHeader = ref.header

\* C22: when the bytes received are complete messages, followed or not by
\* one complete header, LSPToJSON has emitted exactly one object for each
\* message, the JSON parse of its payload; it has emitted nothing for the
\* header that has come alone, and waits for a header (pendingHeader null)
\* when the last payload has come.
C22_HeaderThenPayload ==
    OnlyBytes(received) => HeaderThenPayload(Framing(StreamOf(received),
        <<>>))

\* What does hold: a chunk that is one whole header, written when the
\* converter waits with nothing in its buffer, is taken as the pending
\* header and emits nothing; a chunk that is the whole payload of the
\* pending header, written next, emits its parse and no more.
WritesChunk == Len(received') = Len(received) + 1
LastChunk == received'[Len(received')]
IsWholeHeader(bytes, r) == r.t = "read" /\ r.bytesRead = Len(bytes)
WholeHeaderTaken ==
    /\ WritesChunk
    /\ converter.pendingHeader.t = "null"
    /\ converter.bufferContentLength = 0
    /\ LastChunk.t = "buffer"
    /\ IsWholeHeader(LastChunk.v, tryReadHeader(LastChunk.v))
    => /\ ~converter'.destroyed
       /\ converter'.emitted = converter.emitted
       /\ converter'.pendingHeader = tryReadHeader(LastChunk.v).header
       /\ converter'.bufferContentLength = 0
IsWholePayload(bytes, header) ==
    /\ ~header.contentLength.nan
    /\ Len(bytes) = header.contentLength.n
    /\ JsonParse(Utf8Decode(bytes)).t # "throw"
WholePayloadEmitted ==
    /\ WritesChunk
    /\ converter.pendingHeader.t = "header"
    /\ converter.bufferContentLength = 0
    /\ LastChunk.t = "buffer"
    /\ IsWholePayload(LastChunk.v, converter.pendingHeader)
    => /\ ~converter'.destroyed
       /\ SameValues(converter'.emitted,
                     Append(converter.emitted, JsonParse(Utf8Decode(LastChunk.v))))
       /\ converter'.pendingHeader.t = "null"
       /\ converter'.bufferContentLength = 0
ChunkByChunk == [][WholeHeaderTaken /\ WholePayloadEmitted]_vars

\* The header written whole, then the payload: one object.
ChunkByChunkSeen ==
    /\ Len(received) = 2
    /\ received[1] = FramingChunks[1]
    /\ received[2] = FramingChunks[2]
    /\ Len(converter.emitted) = 1
    /\ converter.pendingHeader.t = "null"

\* A second message whose header comes in two pieces: the first piece and
\* what the buffer still holds of the first header are read as a header,
\* its second piece as the payload.
SplitHeaderMisread ==
    /\ Len(received) = 4
    /\ \A i \in 1..4 : received[i] = FramingChunks[i]
    /\ converter.destroyed
    /\ Len(converter.emitted) = 1

\* A first message whose header comes in two pieces, into memory that
\* holds the bytes of a former header.
FirstHeaderMisread ==
    /\ Len(received) = 2
    /\ received[1] = FramingChunks[3]
    /\ received[2] = FramingChunks[4]
    /\ converter.destroyed

\* Header and payload in one chunk: nothing is emitted.
OneChunkStalls ==
    /\ Len(received) = 1
    /\ received[1] = FramingChunks[5]
    /\ Len(converter.emitted) = 0
    /\ converter.pendingHeader.t = "header"
    /\ converter.bufferContentLength = 2

\* ------------------------------------------------------------------------
\* C23: malformed input
\* ------------------------------------------------------------------------

\* The converter is destroyed and has emitted the objects of the complete
\* messages before the malformed one, and no more.
Rejected(ref) ==
    ref.state = "malformed"
    => /\ converter.destroyed
       /\ SameValues(converter.emitted, ref.objects)

\* C23: when the bytes received hold, after complete messages, a header
\* block without Content-Length, a header line that is no key:value pair,
\* or a payload that is not JSON, LSPToJSON has been destroyed and has
\* emitted no object for it.
C23_MalformedRejected ==
    OnlyBytes(received) => Rejected(Framing(StreamOf(received), <<>>))

\* What does hold: a chunk that is a whole malformed header block, written
\* when the converter waits with nothing in its buffer, and a chunk that
\* is a whole payload that is not JSON, written after its header, each
\* destroy the stream, and nothing is emitted.
MalformedHeaderDestroys ==
    /\ WritesChunk
    /\ converter.pendingHeader.t = "null"
    /\ converter.bufferContentLength = 0
    /\ LastChunk.t = "buffer"
    /\ tryReadHeader(LastChunk.v).t = "throw"
    => /\ converter'.destroyed
       /\ converter'.emitted = converter.emitted
MalformedPayloadDestroys ==
    /\ WritesChunk
    /\ converter.pendingHeader.t = "header"
    /\ converter.bufferContentLength = 0
    /\ LastChunk.t = "buffer"
    /\ AtLeast(Len(LastChunk.v), converter.pendingHeader.contentLength)
    /\ JsonParse(Utf8Decode(FirstBytes(LastChunk.v,
                    converter.pendingHeader.contentLength.n))).t = "throw"
    => /\ converter'.destroyed
       /\ converter'.emitted = converter.emitted
MalformedChunkDestroys ==
    [][MalformedHeaderDestroys /\ MalformedPayloadDestroys]_vars

\* The three malformed inputs, each rejected when it comes as one chunk.
RejectedAfter(chunks) ==
    /\ received = chunks
    /\ converter.destroyed
    /\ Len(converter.emitted) = 0
NoContentLengthRejected == RejectedAfter(<<FramingChunks[7]>>)
NoColonRejected == RejectedAfter(<<FramingChunks[8]>>)
NotJsonRejected == RejectedAfter(<<FramingChunks[1], FramingChunks[6]>>)

\* A header block without Content-Length that comes in two pieces after a
\* message: its first piece and what the buffer still holds of the former
\* header are read as a header, "12" is emitted and the stream lives on.
MalformedAccepted ==
    /\ Len(received) = 4
    /\ received[1] = FramingChunks[1]
    /\ received[2] = FramingChunks[2]
    /\ received[3] = FramingChunks[9]
    /\ received[4] = FramingChunks[10]
    /\ ~converter.destroyed
    /\ Len(converter.emitted) = 2
    /\ SameValue(converter.emitted[2], JNum(12))

\* A malformed header block that comes in the chunk of a message before it
\* is not looked at.
MalformedUnseen ==
    /\ Len(received) = 2
    /\ received[1] = FramingChunks[5]
    /\ received[2] = FramingChunks[7]
    /\ ~converter.destroyed
    /\ Len(converter.emitted) = 1
    /\ converter.pendingHeader.t = "null"

\* ------------------------------------------------------------------------
\* C24: one frame for each object, and the way back
\* ------------------------------------------------------------------------

\* The frame claimed for a value of the table: the two header lines with
\* the length, the empty line, and the text in UTF-8.
ClaimedFrame(entry) ==
    Latin1Encode(<<"C","o","n","t","e","n","t","-","L","e","n","g","t","h",
        ":"," ">> \o entry.length
                 \o <<"\r","\n","C","o","n","t","e","n","t","-","T","y","p",
                     "e",":"," ","a","p","p","l","i","c","a","t","i","o","n",
                     "/","v","s","c","o","d","e","-","j","s","o","n","r","p",
                     "c",";","c","h","a","r","s","e","t","=","u","t","f","-",
                     "8","\r","\n","\r","\n">>)
    \o Utf8Encode(entry.text)

\* A step that writes an object pushes its frame, and only that.
WritesValue == Len(written') = Len(written) + 1
OneFrame ==
    \A i \in 1..Len(RoundTripValues) :
        /\ WritesValue
        /\ SameValue(written'[Len(written')], RoundTripValues[i].value)
        /\ TypeOf(RoundTripValues[i].value) = "object"
        => serializer'.frames
             = Append(serializer.frames, ClaimedFrame(RoundTripValues[i]))

\* The header of a frame written to the converter emits nothing; its
\* payload written next emits the value the frame was made of, and leaves
\* the converter waiting for a header.
HeaderFed ==
    WritesChunk /\ Len(received) % 2 = 0
    => /\ ~converter'.destroyed
       /\ converter'.emitted = converter.emitted
       /\ converter'.pendingHeader.t = "header"
PayloadFed ==
    WritesChunk /\ Len(received) % 2 = 1
    => /\ ~converter'.destroyed
       /\ Len(converter'.emitted) = Len(received') \div 2
       /\ SameValues(converter'.emitted,
                     SubSeq(written, 1, Len(received') \div 2))
       /\ converter'.pendingHeader.t = "null"

\* C24: JSONToLSP turns each object written into one frame, made of
\* "Content-Length: <n>\r\nContent-Type:
\* application/vscode-jsonrpc;charset=utf-8\r\n\r\n" and the compact JSON
\* text of the object, n being the length of that text in UTF-8 bytes; the
\* header and then the payload of the frame written to an LSPToJSON give
\* the object back.
C24_FrameAndBack == [][OneFrame /\ HeaderFed /\ PayloadFed]_vars

\* Two objects have gone through both streams, one of them with a
\* character of two bytes.
C24_Witness ==
    /\ Len(written) = 2
    /\ SameValue(written[1], RoundTripValues[3].value)
    /\ SameValue(written[2], RoundTripValues[1].value)
    /\ serializer.frames[1] = ClaimedFrame(RoundTripValues[3])
    /\ serializer.frames[2] = ClaimedFrame(RoundTripValues[1])
    /\ Len(received) = 4
    /\ Len(converter.emitted) = 2
    /\ SameValue(converter.emitted[1], written[1])
    /\ SameValue(converter.emitted[2], written[2])

\* ------------------------------------------------------------------------
\* C31: patterns and values of different types
\* ------------------------------------------------------------------------

\* The pattern a matchDeepEqual call compared: the pattern given, or what
\* processTemplate made of it at line 174.
ExpandedPattern ==
    IF call.ref.t = "string" THEN processTemplate(templateParams, call.ref.v)
    ELSE call.ref

\* The JSON type of a value: null, boolean, number, string, array, object.
JsonType(x) == x.t
Scalars == {"null", "boolean", "number", "string"}

TypeMismatchIsFalse(ref) ==
    ref.t # "throw" /\ JsonType(ref) # JsonType(call.test)
    => ret.v = "false"
ScalarsMatchWhenEqual(ref) ==
    /\ ref.t # "throw"
    /\ JsonType(ref) = JsonType(call.test)
    /\ JsonType(ref) \in Scalars
    => (ret.v = "true" <=> SameValue(ref, call.test))

\* C31: matchDeepEqual returns false when the pattern, after expansion,
\* and the actual value are of different JSON types, and for two scalars
\* of one type it returns true exactly when they are equal.
C31_TypeMismatchIsNoMatch ==
    MatchReturned
    => /\ TypeMismatchIsFalse(ExpandedPattern)
       /\ ScalarsMatchWhenEqual(ExpandedPattern)

\* "#{k}" with k -> 42 against the string "42".
C31_Witness ==
    /\ MatchReturned
    /\ call.ref.t = "string"
    /\ SameValue(ExpandedPattern, JNum(42))
    /\ SameValue(call.test, JStr(<<"4","2">>))
    /\ ret.v = "false"

\* The other cases named: null against an object, an array against an
\* object and an object against an array, the empty pattern object
\* against an array, and scalars of one type that differ.
ReturnedFalseFor(ref, live) ==
    /\ MatchReturned
    /\ SameValue(call.ref, ref)
    /\ SameValue(call.test, live)
    /\ ret.v = "false"
NullAgainstObjectSeen == ReturnedFalseFor(JNull, EmptyObj)
ArrayAgainstObjectSeen == ReturnedFalseFor(JArr(<<>>), EmptyObj)
ObjectAgainstArraySeen == ReturnedFalseFor(A1, L12)
EmptyObjectAgainstArraySeen == ReturnedFalseFor(EmptyObj, L12)
NumbersDifferSeen == ReturnedFalseFor(JNum(42), JNum(7))
BooleansDifferSeen == ReturnedFalseFor(JBool(TRUE), JBool(FALSE))
StringsDifferSeen == ReturnedFalseFor(JStr(<<"4","2">>), DollarZ)

\* ------------------------------------------------------------------------
\* C32: templated keys of a pattern
\* ------------------------------------------------------------------------
ExpandForm(s) == \E n \in Names : s = <<"$", "{">> \o n \o <<"}">>
ExpandName(s) == CHOOSE n \in Names : s = <<"$", "{">> \o n \o <<"}">>
ExpandDefined(tp, n) ==
    HasKey(tp, ExpandKey) /\ HasKey(GetKey(tp, ExpandKey), n)
ExpandValue(tp, n) == GetKey(GetKey(tp, ExpandKey), n).v

\* The slot is a request step whose pattern is an object with the one key
\* "${n}", n being set.
KeyedSlot ==
    /\ HandlingScriptRequest
    /\ ~Exhausted
    /\ Slot.type = "request"
    /\ Slot.params.t = "object"
    /\ Len(Slot.params.v) = 1
    /\ ExpandForm(Slot.params.v[1].k)
    /\ ExpandDefined(templateParams, ExpandName(Slot.params.v[1].k))
WantedKey == ExpandValue(templateParams, ExpandName(Slot.params.v[1].k))
HasWantedKey ==
    /\ NewIn.method = Slot.method
    /\ NewIn.value.t = "object"
    /\ HasKey(NewIn.value, WantedKey)
StepTaken == running' /\ sequenceIndex' = sequenceIndex + 1

\* The request is accepted only if its params have the expanded key, and
\* it is accepted if the value found under that key matches.
KeyExpandedStep ==
    KeyedSlot =>
        /\ StepTaken => HasWantedKey
        /\ (/\ HasWantedKey
            /\ matchDeepEqual(templateParams, Slot.params.v[1].v,
                              GetKey(NewIn.value, WantedKey)) = "true")
           => StepTaken

\* The first key of the scripted message's pattern is "#{n}", n being set
\* to a value that is no string, and matching gets to it.
NonStringKey(msg) ==
    /\ msg.method = NewIn.method
    /\ NewIn.value.t = "object"
    /\ msg.params.t = "object"
    /\ Len(msg.params.v) >= 1
    /\ WholeReplaceForm(msg.params.v[1].k)
    /\ ReplaceDefined(templateParams, WholeName(msg.params.v[1].k))
    /\ ReplaceValue(templateParams, WholeName(msg.params.v[1].k)).t # "string"
NonStringKeyOccurs ==
    /\ HandlingScriptRequest
    /\ ~Exhausted
    /\ Slot.type = "request-unordered"
    /\ \E i \in 1..Len(Slot.content) :
          ScanReaches(i) /\ NonStringKey(Slot.content[i])
\* The run ends there; no later member of the group is tried.
NonStringKeyStep ==
    NonStringKeyOccurs =>
        /\ FatalExit'
        /\ sequenceIndex' = sequenceIndex
        /\ tasks' = tasks
        /\ log' = Append(log, NewIn)

\* C32: the keys of a pattern object are template-expanded before they
\* are looked up in the actual object (the key "${a}" with a -> "id" asks
\* for the key "id"), and a key "#{name}" whose value is no string is
\* fatal: it is no ordinary non-match after which the next member of a
\* group would be tried.
C32_TemplatedKeys == [][KeyExpandedStep /\ NonStringKeyStep]_vars

\* With k -> 42 the request foo {x:1} met the group whose first member has
\* the pattern {"#{k}": 1} and whose second member matches it: the run
\* ended.
C32_Witness ==
    /\ FatalExit
    /\ SameValue(templateParams, ParamsAK)
    /\ Slot.type = "request-unordered"
    /\ SameValue(Slot.content[1].params, KeyedK)
    /\ log[Len(log)].kind = "request"
    /\ log[Len(log)].method = "foo"
    /\ SameValue(log[Len(log)].value, X1)
    /\ matchMessage(ParamsAK, Slot.content[2], "foo", X1) = "true"

\* With a -> "id" and k -> 42 the request foo {id:42} was accepted by the
\* step with the pattern {"${a}": "#{k}"}.
ExpandedKeyAccepted ==
    /\ running
    /\ SameValue(templateParams, ParamsAK)
    /\ test.sequence[1].type = "request"
    /\ SameValue(test.sequence[1].params, TplIdK)
    /\ sequenceIndex = 1
    /\ \E i \in 1..Len(log) :
          /\ log[i].dir = "in"
          /\ log[i].kind = "request"
          /\ log[i].method = "foo"
          /\ SameValue(log[i].value, Id42)

\* ------------------------------------------------------------------------
\* C33: absent pattern, absent params
\* ------------------------------------------------------------------------
MessageReturned == call.fn = "matchMessage" /\ ret.t = "match"
NoPattern == call.ref.params.t = "undefined"
NoParamsSent == call.test.params.t = "undefined"

\* C33: a step without a pattern matches a message of its method exactly
\* when the message was sent without params, and a step with a pattern,
\* be it the empty object, does not match a message sent without params.
C33_AbsentPatternAbsentParams ==
    MessageReturned
    => /\ NoPattern
          => (ret.v = "true"
              <=> call.ref.method = call.test.method /\ NoParamsSent)
       /\ ~NoPattern /\ NoParamsSent => ret.v = "false"

\* A step without a pattern against a message with the params {}.
C33_Witness ==
    /\ MessageReturned
    /\ NoPattern
    /\ call.ref.method = call.test.method
    /\ SameValue(call.test.params, EmptyObj)
    /\ ret.v = "false"

\* The pattern {} against a message without params, and no pattern
\* against no params.
EmptyPatternNoParamsSeen ==
    /\ MessageReturned
    /\ SameValue(call.ref.params, EmptyObj)
    /\ call.ref.method = call.test.method
    /\ NoParamsSent
    /\ ret.v = "false"
NoPatternNoParamsSeen ==
    /\ MessageReturned
    /\ NoPattern
    /\ call.ref.method = call.test.method
    /\ NoParamsSent
    /\ ret.v = "true"

\* ------------------------------------------------------------------------
\* C34.  Template parameters are read when they are used, not when the step
\* was matched: the reply to a reaction request is verified with the
\* parameters of the last $/setTemplateParams request handled before the
\* reply, also when that request was handled while the reaction request was
\* awaiting its reply, and so are the replies of the later reactions of the
\* same list.
\* ------------------------------------------------------------------------
ParamsNow == ParamsAfter(log, Len(log))

ReplyVerifiedWithParamsNow ==
    HandlingReply =>
        (running' <=> processRequestResult(ParamsNow, NewIn.value, Expected) = "ok")

ParamsFollowRequests == templateParams' = ParamsAfter(log', Len(log'))

C34_ParamsReadWhenUsed ==
    [][ReplyVerifiedWithParamsNow /\ ParamsFollowRequests]_vars

\* Entry i of the log is a reply that was accepted: the task went on.
AcceptedReply(i) ==
    /\ log[i].dir = "in"
    /\ log[i].kind = "reply"
    /\ \/ tasks[log[i].task].i > log[i].idx
       \/ tasks[log[i].task].phase = "done"

\* Entry i of the log is a reply that the parameters of the moment its step
\* was matched would have refused.
RefusedAtMatch(i) ==
    /\ log[i].dir = "in"
    /\ log[i].kind = "reply"
    /\ processRequestResult(ParamsAfter(log, tasks[log[i].task].owner),
                            log[i].value,
                            tasks[log[i].task].list[log[i].idx].result) # "ok"

\* The replies to both reaction requests of a list were accepted with
\* parameters that were set while the first one was awaiting its reply.
C34_Witness ==
    \E i, j \in 1..Len(log) :
        /\ i < j
        /\ AcceptedReply(i) /\ RefusedAtMatch(i) /\ log[i].idx = 1
        /\ AcceptedReply(j) /\ RefusedAtMatch(j) /\ log[j].idx = 2
        /\ log[j].task = log[i].task

\* A reply that the parameters of the moment of the match accept ended the
\* run, because the parameters were replaced while it was awaited.
ChangedParamsRefuse ==
    /\ FatalExit
    /\ Len(log) >= 1
    /\ log[Len(log)].dir = "in"
    /\ log[Len(log)].kind = "reply"
    /\ ~RefusedAtMatch(Len(log))
    /\ log[Len(log)].value.t # "undefined"

\* ------------------------------------------------------------------------
\* C35.  Liveness of replies: when every reaction eventually settles, every
\* inbound request that matched its slot is eventually answered with its
\* scripted result unless the process terminates; a request that does not
\* match ends the process at once, so the requests in question are the
\* script requests in the log.
\* ------------------------------------------------------------------------
ScriptRequest(n) ==
    /\ log[n].dir = "in"
    /\ log[n].kind = "request"
    /\ log[n].method \notin ControlMethods

Answered(n) ==
    \E j \in 1..Len(log) :
        /\ j > n
        /\ log[j].dir = "out"
        /\ log[j].kind = "response"
        /\ log[j].id = n

AllAnswered == \A n \in 1..Len(log) : ScriptRequest(n) => Answered(n)

TerminatedWhileAwaited ==
    /\ ~running
    /\ exitCode = 0
    /\ ~AllAnswered

\* ------------------------------------------------------------------------
\* C36.  LSPToJSON is independent of chunking: when the bytes written, put
\* end to end, are complete well-formed frames and nothing else, then,
\* however they were split into chunks, LSPToJSON has emitted exactly the
\* objects of the frames, in order, and its buffer holds no bytes that are
\* still to be read.
\* ------------------------------------------------------------------------
WholeFrames(ref) == ref.state = "waiting"

EmittedAll(ref) ==
    /\ ~converter.destroyed
    /\ SameValues(converter.emitted, ref.objects)
    /\ converter.pendingHeader.t = "null"
    /\ converter.bufferContentLength = 0

ChunkingIndependent(ref) == WholeFrames(ref) => EmittedAll(ref)

C36_ChunkingIndependent ==
    OnlyBytes(received) => ChunkingIndependent(Framing(StreamOf(received), <<>>))

\* Two frames, each written as one chunk: the first object is emitted when
\* the second chunk arrives, and the second frame stays in the buffer.
FrameLeftInBuffer ==
    /\ Len(received) = 2
    /\ received[1] = FramingChunks[5]
    /\ received[2] = FramingChunks[5]
    /\ ~converter.destroyed
    /\ Len(converter.emitted) = 1
    /\ converter.bufferContentLength > 0

\* Frames written header chunk by payload chunk are emitted in full.
TwoFramesChunkByChunk ==
    /\ Len(received) = 4
    /\ received[1] = FramingChunks[1] /\ received[2] = FramingChunks[2]
    /\ received[3] = FramingChunks[1] /\ received[4] = FramingChunks[2]
    /\ Len(converter.emitted) = 2
    /\ converter.bufferContentLength = 0

====
